---- MODULE Spec2Model ----
(***************************************************************************)
(* A model of the core of hardened_malloc (src/malloc.c): the size-class   *)
(* table, the slab engine, the region table of large allocations, the      *)
(* dispatcher of the public entry points and the page-level layout of      *)
(* large allocations.                                                      *)
(*                                                                         *)
(* Scaling.  TLC's integers are 32 bits wide, so three quantities of the   *)
(* program are scaled and everything else keeps its value in the source:   *)
(*   - size_t is SIZE_WIDTH bits wide instead of 64 (SIZE_MOD);            *)
(*   - a class's usable sub-range is ClassRegionPages pages instead of     *)
(*     128 GiB, and the committed part of a metadata array starts at       *)
(*     MetadataInit entries instead of one page;                           *)
(*   - the region table starts at 2^RegionsInitLog slots instead of 256    *)
(*     and is capped RegionsMaxGrows doublings later.                      *)
(* Addresses are byte addresses, sizes are bytes.                          *)
(***************************************************************************)
EXTENDS Integers, Sequences, FiniteSets, Bags, TLC

\* ------------------------------------------------------------------------
\* Configuration (config.h) and page constants (pages.h)
\* ------------------------------------------------------------------------
SLAB_CANARY == TRUE
ZERO_ON_FREE_mut_off == FALSE
ZERO_ON_FREE == TRUE
WRITE_AFTER_FREE_CHECK == TRUE
SLOT_RANDOMIZE == TRUE
GUARD_SLABS == TRUE

PAGE_SIZE == 4096
PAGE_SHIFT == 12
SIZE_WIDTH == 30
SIZE_MOD == 2 ^ SIZE_WIDTH
PAGE_CEILING(s) == (((s + PAGE_SIZE - 1) % SIZE_MOD) \div PAGE_SIZE) * PAGE_SIZE
SIZE_MAX == SIZE_MOD - 1
\* size_t subtraction: unsigned, wrapping
size_sub(a, b) == (a - b) % SIZE_MOD

NULL == 0
EINVAL == 22
ENOMEM == 12

Min(a, b) == IF a < b THEN a ELSE b

\* ------------------------------------------------------------------------
\* Size classes
\* ------------------------------------------------------------------------
canary_size == IF SLAB_CANARY THEN 8 ELSE 0
min_align == 16
max_slab_size_class == 16384

size_classes ==
    << 0,
       16, 32, 48, 64, 80, 96, 112, 128,
       160, 192, 224, 256,
       320, 384, 448, 512,
       640, 768, 896, 1024,
       1280, 1536, 1792, 2048,
       2560, 3072, 3584, 4096,
       5120, 6144, 7168, 8192,
       10240, 12288, 14336, 16384 >>

size_class_slots ==
    << 256,
       256, 128, 85, 64, 51, 42, 36, 64,
       51, 64, 54, 64,
       64, 64, 64, 64,
       64, 64, 64, 64,
       16, 16, 16, 16,
       8, 8, 8, 8,
       8, 8, 8, 8,
       6, 5, 4, 4 >>

N_SIZE_CLASSES == Len(size_classes)
AllClasses == 0 .. (N_SIZE_CLASSES - 1)

\* size_classes[class] and size_class_slots[class], indexed from 0 as in C
class_size(class) == size_classes[class + 1]
class_slots(class) == size_class_slots[class + 1]

\* the result of a get_size_info call that ends in fatal_error
INVALID_SIZE_INFO == [size |-> -1, class |-> -1]

get_size_info(size) ==
    IF size = 0 THEN [size |-> 0, class |-> 0]
    ELSE IF size <= 128
        THEN [size |-> ((size + 15) \div 16) * 16, class |-> ((size - 1) \div 16) + 1]
    ELSE IF size > max_slab_size_class THEN INVALID_SIZE_INFO
    ELSE LET class == CHOOSE c \in 9 .. (N_SIZE_CLASSES - 1) :
                          /\ size <= class_size(c)
                          /\ \A d \in 9 .. (c - 1) : size > class_size(d)
         IN [size |-> class_size(class), class |-> class]

\* alignment is a power of two <= PAGE_SIZE, size <= max_slab_size_class
get_size_info_align(size, alignment) ==
    LET fits(c) == size <= class_size(c) /\ class_size(c) % alignment = 0
    IN IF \E c \in 1 .. (N_SIZE_CLASSES - 1) : fits(c)
       THEN LET class == CHOOSE c \in 1 .. (N_SIZE_CLASSES - 1) :
                             fits(c) /\ \A d \in 1 .. (c - 1) : ~fits(d)
            IN [size |-> class_size(class), class |-> class]
       ELSE INVALID_SIZE_INFO

get_slab_size(slots, size) == PAGE_CEILING(slots * size)

\* the object size the slab engine uses for a class: 16 for the zero-size class
class_object_size(class) == IF class_size(class) = 0 THEN 16 ELSE class_size(class)
class_slab_size(class) == get_slab_size(class_slots(class), class_object_size(class))

adjust_size_for_canaries(size) ==
    IF size > 0 /\ size <= max_slab_size_class THEN size + canary_size ELSE size


\* ------------------------------------------------------------------------
\* Dispatcher: what each public entry point asks of the two backends
\* ------------------------------------------------------------------------
mremap_threshold == 4 * 1024 * 1024

\* An allocation as the dispatcher resolves it: a slab slot of a class, a
\* region of a recorded size, or an error return.
SmallPlan(class) == [kind |-> "small", class |-> class, size |-> class_size(class), errno |-> 0]
LargePlan(size) == [kind |-> "large", class |-> -1, size |-> size, errno |-> 0]
ErrorPlan(errno) == [kind |-> "error", class |-> -1, size |-> 0, errno |-> errno]
FatalPlan == [kind |-> "fatal", class |-> -1, size |-> 0, errno |-> 0]
NoPlan == [kind |-> "none", class |-> -1, size |-> 0, errno |-> 0]

\* allocate(): the slab engine up to max_slab_size_class, the region path above
allocate_plan(size) ==
    IF size <= max_slab_size_class
    THEN SmallPlan(get_size_info(size).class)
    ELSE LargePlan(size)

IsPowerOfTwoOrZero(a) == a = 0 \/ \E k \in 0 .. (SIZE_WIDTH - 1) : a = 2 ^ k

alloc_aligned_plan(alignment, size, min_alignment) ==
    IF ~IsPowerOfTwoOrZero(alignment) \/ alignment < min_alignment
    THEN ErrorPlan(EINVAL)
    ELSE IF alignment <= PAGE_SIZE
    THEN allocate_plan(IF size <= max_slab_size_class /\ alignment > min_align
                       THEN get_size_info_align(size, alignment).size
                       ELSE size)
    ELSE LargePlan(size)

h_malloc_plan(size) == allocate_plan(adjust_size_for_canaries(size))

h_calloc_plan(nmemb, size) ==
    IF nmemb * size > SIZE_MAX
    THEN ErrorPlan(ENOMEM)
    ELSE allocate_plan(adjust_size_for_canaries(nmemb * size))

h_posix_memalign_plan(alignment, size) ==
    alloc_aligned_plan(alignment, adjust_size_for_canaries(size), 8)

h_aligned_alloc_plan(alignment, size) ==
    alloc_aligned_plan(alignment, adjust_size_for_canaries(size), 1)

h_valloc_plan(size) ==
    alloc_aligned_plan(PAGE_SIZE, adjust_size_for_canaries(size), 1)

h_pvalloc_plan(size) ==
    LET rounded == PAGE_CEILING(size)
    IN IF rounded = 0 THEN ErrorPlan(ENOMEM)
       ELSE alloc_aligned_plan(PAGE_SIZE, rounded, 1)

\* h_malloc_usable_size / slab_usable_size of a pointer the plan produced
usable_size_of_class(class) ==
    IF class_size(class) # 0 THEN class_size(class) - canary_size ELSE 0

plan_usable_size(plan) ==
    IF plan.kind = "small" THEN usable_size_of_class(plan.class) ELSE plan.size

\* h_realloc's decisions; size is the canary-adjusted request, old_size is
\* slab_usable_size(old) or region->size
realloc_same_class(size, old_size) ==
    size <= max_slab_size_class /\ get_size_info(size).size = old_size

realloc_in_place_mut_exact(size, old_size) == old_size = size

\* h_realloc: the region keeps its pages
realloc_in_place(size, old_size) == PAGE_CEILING(old_size) = PAGE_CEILING(size)

realloc_shrink(size, old_size) == size < old_size /\ size > max_slab_size_class

realloc_remap(size, old_size) == Min(size, old_size) >= mremap_threshold

realloc_copy_size(size, old_size) ==
    LET copy_size == Min(size, old_size)
    IN IF size > 0 /\ size <= max_slab_size_class
       THEN size_sub(copy_size, canary_size)
       ELSE copy_size

\* the backend h_realloc frees the old block with
realloc_free_backend(old_size) ==
    IF old_size <= max_slab_size_class THEN "small" ELSE "large"

\* the expected size h_free_sized hands to the backend
free_sized_expected_small(expected_size) ==
    get_size_info(adjust_size_for_canaries(expected_size)).size

free_sized_expected_large(expected_size) == expected_size

\* ------------------------------------------------------------------------
\* Region table (open addressing, linear probing downwards)
\* ------------------------------------------------------------------------
RegionsInitLog == 3
RegionsMaxGrows == 2
initial_region_table_size == 2 ^ RegionsInitLog
max_region_table_size == initial_region_table_size * (2 ^ RegionsMaxGrows)

\* struct region_info; a slot is free when p = NULL
RegionInfo(p, size, guard_size) == [p |-> p, size |-> size, guard_size |-> guard_size]
NullRegion == RegionInfo(NULL, 0, 0)
\* a buffer as memory_map / memory_map_fixed leaves it: zero pages
ZeroBuffer == [i \in 0 .. (max_region_table_size - 1) |-> NullRegion]

\* hash_page keeps the low HASH_WIDTH bits: the masks never reach above them,
\* and the folded words u >> 32 and u >> 48 are 0 for every model address
HASH_WIDTH == 16
HASH_MOD == 2 ^ HASH_WIDTH
hash_mix(sum, word) == (sum * 128 - sum + word) % HASH_MOD

hash_page(p) ==
    LET u == p \div PAGE_SIZE
    IN hash_mix(hash_mix(hash_mix(u % HASH_MOD, (u \div 65536) % HASH_MOD), 0), 0)

\* (index - 1) & mask
probe_next(index, total) == (index - 1) % total

\* a probe loop that has not ended after `total` steps never ends
PROBE_LOOPS == -2
NOT_FOUND == -1

RECURSIVE probe_until(_, _, _, _, _)
\* the slot index where a downward probe from `index` first meets p or NULL
probe_until(tab, total, index, p, fuel) ==
    IF tab[index].p = p \/ tab[index].p = NULL THEN index
    ELSE IF fuel = 0 THEN PROBE_LOOPS
    ELSE probe_until(tab, total, probe_next(index, total), p, fuel - 1)

\* regions_find: the slot index of p, NOT_FOUND for the NULL result
regions_find(tab, total, p) ==
    LET index == probe_until(tab, total, hash_page(p) % total, p, total)
    IN IF index = PROBE_LOOPS THEN PROBE_LOOPS
       ELSE IF tab[index].p = p /\ p # NULL THEN index ELSE NOT_FOUND

\* the slot regions_insert and the rehash of regions_grow store an entry in
insert_slot(tab, total, p) == probe_until(tab, total, hash_page(p) % total, NULL, total)

RECURSIVE rehash(_, _, _, _, _)
\* the loop of regions_grow: old slots i .. total-1 copied into target
rehash(old, total, target, newtotal, i) ==
    IF i >= total THEN target
    ELSE IF old[i].p = NULL THEN rehash(old, total, target, newtotal, i + 1)
    ELSE LET index == insert_slot(target, newtotal, old[i].p)
         IN IF index = PROBE_LOOPS THEN target
            ELSE rehash(old, total, [target EXCEPT ![index] = old[i]], newtotal, i + 1)

\* the cyclic test of regions_delete: the entry at i with ideal bucket r may
\* not move into the gap j
delete_stays(i, r, j) ==
    \/ (i <= r /\ r < j)
    \/ (r < j /\ j < i)
    \/ (j < i /\ i <= r)

RECURSIVE delete_outer(_, _, _, _)
RECURSIVE delete_inner(_, _, _, _, _)
delete_inner(tab, total, i0, j, fuel) ==
    LET i == probe_next(i0, total)
    IN IF tab[i].p = NULL THEN tab
       ELSE IF fuel = 0 THEN tab
       ELSE IF delete_stays(i, hash_page(tab[i].p) % total, j)
            THEN delete_inner(tab, total, i, j, fuel - 1)
            ELSE delete_outer([tab EXCEPT ![j] = tab[i]], total, i, fuel - 1)

delete_outer(tab, total, i, fuel) ==
    delete_inner([tab EXCEPT ![i].p = NULL, ![i].size = 0], total, i, i, fuel)

\* regions_delete(&regions[i]): the table afterwards
regions_delete(tab, total, i) == delete_outer(tab, total, i, 2 * total)

\* regions, regions_total, regions_free and the two buffers of ro.regions as
\* one value; regions is the index (1 or 2) of the active buffer
ActiveTable(rs) == rs.ro_regions[rs.regions]

\* regions_grow; protect_fails and map_fixed_fails are the page provider's
\* answers to memory_protect_rw (target) and memory_map_fixed (old buffer)
regions_grow(rs, protect_fails, map_fixed_fails) ==
    LET newtotal == rs.total * 2
        other == IF rs.regions = 1 THEN 2 ELSE 1
        p == rehash(ActiveTable(rs), rs.total, rs.ro_regions[other], newtotal, 0)
    IN IF newtotal > max_region_table_size \/ protect_fails
       THEN [ok |-> FALSE, rs |-> rs]
       ELSE [ok |-> TRUE,
             rs |-> [ro_regions |-> [rs.ro_regions EXCEPT
                                        ![other] = p,
                                        ![rs.regions] = IF map_fixed_fails THEN @ ELSE ZeroBuffer],
                     regions |-> other,
                     total |-> newtotal,
                     free |-> rs.free + rs.total]]

regions_needs_grow_mut_eighth(free, total) == free * 8 < total
regions_needs_grow_mut_when_full(free, total) == free = 0

\* the test regions_insert grows the table on
regions_needs_grow(free, total) == free * 4 < total

regions_insert_mut_failure_drops_table(rs, p, size, guard_size, protect_fails, map_fixed_fails) ==
    LET g == IF regions_needs_grow(rs.free, rs.total)
             THEN regions_grow(rs, protect_fails, map_fixed_fails)
             ELSE [ok |-> TRUE, rs |-> rs]
        r == g.rs
        index == insert_slot(ActiveTable(r), r.total, p)
    IN IF ~g.ok \/ index = PROBE_LOOPS
       THEN [ok |-> FALSE, hangs |-> g.ok,
             rs |-> [rs EXCEPT !.ro_regions[rs.regions] = ZeroBuffer]]
       ELSE [ok |-> TRUE, hangs |-> FALSE,
             rs |-> [r EXCEPT !.ro_regions[r.regions][index] = RegionInfo(p, size, guard_size),
                              !.free = @ - 1]]

\* regions_insert; ok = FALSE is the return value 1
regions_insert(rs, p, size, guard_size, protect_fails, map_fixed_fails) ==
    LET g == IF regions_needs_grow(rs.free, rs.total)
             THEN regions_grow(rs, protect_fails, map_fixed_fails)
             ELSE [ok |-> TRUE, rs |-> rs]
        r == g.rs
        index == insert_slot(ActiveTable(r), r.total, p)
    IN IF ~g.ok \/ index = PROBE_LOOPS
       THEN [ok |-> FALSE, hangs |-> g.ok, rs |-> rs]
       ELSE [ok |-> TRUE, hangs |-> FALSE,
             rs |-> [r EXCEPT !.ro_regions[r.regions][index] = RegionInfo(p, size, guard_size),
                              !.free = @ - 1]]

\* ------------------------------------------------------------------------
\* Page provider (memory.c, pages.c): the address space as the set of its
\* maximal mapped segments [lo, hi) with one protection each
\* ------------------------------------------------------------------------
Segment(lo, hi, prot) == [lo |-> lo, hi |-> hi, prot |-> prot]

\* what is left of every segment outside [lo, hi)
vm_remove(vm, lo, hi) ==
    { s \in vm : s.hi <= lo \/ s.lo >= hi }
    \cup { Segment(s.lo, lo, s.prot) : s \in { x \in vm : x.lo < lo /\ x.hi > lo } }
    \cup { Segment(hi, s.hi, s.prot) : s \in { x \in vm : x.lo < hi /\ x.hi > hi } }

\* memory_unmap(addr, size)
memory_unmap(vm, addr, size) == vm_remove(vm, addr, addr + size)

\* mmap / mprotect of [lo, hi) with protection prot, segments kept maximal
vm_set(vm, lo, hi, prot) ==
    IF lo >= hi THEN vm
    ELSE LET rest == vm_remove(vm, lo, hi)
             L == { x \in rest : x.hi = lo /\ x.prot = prot }
             R == { x \in rest : x.lo = hi /\ x.prot = prot }
             newlo == IF L = {} THEN lo ELSE (CHOOSE x \in L : TRUE).lo
             newhi == IF R = {} THEN hi ELSE (CHOOSE x \in R : TRUE).hi
         IN (rest \ (L \cup R)) \cup { Segment(newlo, newhi, prot) }

\* memory_map_fixed: a fresh inaccessible mapping over [addr, addr + size)
memory_map_fixed(vm, addr, size) == vm_set(vm, addr, addr + size, "none")
\* memory_protect_rw: [addr, addr + size) made readable and writable
memory_protect_rw(vm, addr, size) == vm_set(vm, addr, addr + size, "rw")

vm_range_is(vm, lo, hi, prot) ==
    lo >= hi \/ \E s \in vm : s.prot = prot /\ s.lo <= lo /\ hi <= s.hi
vm_range_unmapped(vm, lo, hi) == \A s \in vm : s.hi <= lo \/ s.lo >= hi

\* allocate_pages(usable_size, guard_size, true) returning usable: a fresh
\* mapping of guard, data and guard, the data made readable and writable
allocate_pages(vm, usable, usable_size, guard_size) ==
    memory_protect_rw(
        memory_map_fixed(vm, usable - guard_size, PAGE_CEILING(usable_size) + 2 * guard_size),
        usable, PAGE_CEILING(usable_size))

\* where the kernel can put such a mapping
pages_fit(vm, usable, usable_size, guard_size) ==
    vm_range_unmapped(vm, usable - guard_size, usable + PAGE_CEILING(usable_size) + guard_size)

\* deallocate_pages(usable, usable_size, guard_size)
deallocate_pages(vm, usable, usable_size, guard_size) ==
    memory_unmap(vm, usable - guard_size, PAGE_CEILING(usable_size) + 2 * guard_size)

\* a successful memory_remap_fixed(old, old_size, new, new_size): the pages
\* leave the old range and replace whatever was mapped at the new one
memory_remap_fixed(vm, old, old_size, new, new_size) ==
    memory_protect_rw(memory_unmap(vm, old, PAGE_CEILING(old_size)),
                      new, PAGE_CEILING(new_size))

\* get_random_u64_uniform / get_random_u16_uniform(rng, bound): the draws the
\* model lets the generator make, the two ends of its range
RandomUniform(bound) == IF bound < 2 THEN {0} ELSE {0, bound - 1}

\* get_guard_size for each draw of the generator
get_guard_size(draw) == (draw + 1) * PAGE_SIZE
guard_draw_bound(size) == (size \div PAGE_SIZE) \div 8

\* ------------------------------------------------------------------------
\* Slab region geometry
\* ------------------------------------------------------------------------
ClassRegionPages == 64
MetadataInit == 2

class_region_size == ClassRegionPages * PAGE_SIZE
real_class_region_size == class_region_size * 2
slab_region_size == real_class_region_size * N_SIZE_CLASSES

\* ro.slab_region_start as memory_map returned it, and ro.slab_region_end
slab_region_start == 16 * PAGE_SIZE
slab_region_end == slab_region_start + slab_region_size

in_slab_region(p) == p >= slab_region_start /\ p < slab_region_end

\* the draw of get_random_u64_uniform(&regions_rng, bound) init_slow_path
\* made for the class: the lowest for even classes, the highest for odd ones
gap_bound == (real_class_region_size - class_region_size) \div PAGE_SIZE - 1
gap_draw(class) == IF class % 2 = 0 THEN 0 ELSE gap_bound - 1
class_region_start(class) ==
    slab_region_start + real_class_region_size * class + (gap_draw(class) + 1) * PAGE_SIZE

get_metadata_max(slab_size) == class_region_size \div slab_size

\* get_slab: the address of the slab of metadata index `index`
get_slab(class, slab_size, index) == class_region_start(class) + index * slab_size

slot_pointer_mut_skips_canary(size, slab, slot) == slab + slot * (size + canary_size)
slot_pointer(size, slab, slot) == slab + slot * size

\* slab_size_class for a pointer inside the slab region
slab_size_class(p) == (p - slab_region_start) \div real_class_region_size
slab_usable_size(p) == class_size(slab_size_class(p))

\* ------------------------------------------------------------------------
\* Slab metadata: the bitmap is the set of its set bits
\* ------------------------------------------------------------------------
NIL == -1
AllBits == 0 .. 63
SlabMetadata(bitmap, next, prev, canary_value) ==
    [bitmap |-> bitmap, next |-> next, prev |-> prev, canary_value |-> canary_value]
\* a metadata entry in freshly committed memory
ZeroMetadata == SlabMetadata({}, NIL, NIL, 0)

check_index(index) == index < 64

get_mask(slots) == IF slots < 64 THEN { i \in AllBits : i >= slots } ELSE {}

\* ffzl: 1 + the index of the lowest clear bit, 0 when every bit is set
ffzl(x) ==
    IF AllBits \subseteq x THEN 0
    ELSE 1 + (CHOOSE i \in AllBits : i \notin x /\ \A j \in 0 .. (i - 1) : j \in x)

NO_ZERO_BITS == -1

get_free_slot_mut_ignore_bitmap(slots, bitmap, draw) ==
    IF AllBits \subseteq (bitmap \cup get_mask(Min(slots, 64))) THEN NO_ZERO_BITS
    ELSE ffzl(get_mask(Min(slots, 64)) \cup (0 .. (draw - 1))) - 1

\* get_free_slot; draw is get_random_u16_uniform(rng, min(slots, 64));
\* NO_ZERO_BITS stands for fatal_error("no zero bits")
get_free_slot(slots, bitmap, draw) ==
    LET masked == bitmap \cup get_mask(Min(slots, 64))
        random_split == 0 .. (draw - 1)
        slot == ffzl(masked \cup random_split)
    IN IF AllBits \subseteq masked THEN NO_ZERO_BITS
       ELSE IF SLOT_RANDOMIZE /\ slot # 0 THEN slot - 1
       ELSE ffzl(masked) - 1

has_free_slots_mut_below_64(slots, bitmap) == ~(AllBits \subseteq bitmap)

has_free_slots(slots, bitmap) ==
    ~(AllBits \subseteq (bitmap \cup get_mask(Min(slots, 64))))

is_free_slab(bitmap) == bitmap = {}

canary_mask_low_byte == 256
\* value & canary_mask on a little-endian machine: the low byte cleared
canary_masked(value) == value - (value % canary_mask_low_byte)
\* the values the model lets get_random_u64 return
RandomU64 == {256 + 1, 512 + 255}

\* ------------------------------------------------------------------------
\* Slab engine: the operations on one class's struct size_class (c), the
\* address space (v) and the bytes of the slots
\* ------------------------------------------------------------------------
max_empty_slabs_total == 64 * 1024

\* deallocate_small: would caching one more slab pass the budget?
exceeds_budget_mut_at_least(empty_slabs_total, slab_size) ==
    empty_slabs_total + slab_size >= max_empty_slabs_total
exceeds_budget(empty_slabs_total, slab_size) ==
    empty_slabs_total + slab_size > max_empty_slabs_total

\* the bytes of the slot at p: body holds the slots with a nonzero byte in
\* their first size - canary_size bytes, tail maps a slot to its last 8 bytes
\* where those are not zero
tail_of(tail, p) == IF p \in DOMAIN tail THEN tail[p] ELSE 0
tail_store_mut_noop(tail, p, value) == tail
tail_store(tail, p, value) ==
    IF value = 0 THEN [x \in DOMAIN tail \ {p} |-> tail[x]]
    ELSE [x \in DOMAIN tail \cup {p} |-> IF x = p THEN value ELSE tail[x]]
\* the pages of [lo, hi) replaced by fresh zero pages
body_drop(body, lo, hi) == { x \in body : x < lo \/ x >= hi }
tail_drop(tail, lo, hi) == [x \in { y \in DOMAIN tail : y < lo \/ y >= hi } |-> tail[x]]

alloc_metadata_mut_counts_before_commit(c, v, class, slab_size, non_zero_size, info_fails, slab_fails) ==
    LET metadata_max == get_metadata_max(slab_size)
        grows == c.metadata_count >= c.metadata_allocated
        allocate == Min(c.metadata_allocated * 2, metadata_max)
        c1 == IF grows
              THEN [c EXCEPT !.metadata_allocated = allocate,
                             !.slab_info = [i \in 0 .. (allocate - 1) |->
                                 IF i < c.metadata_allocated THEN c.slab_info[i]
                                 ELSE ZeroMetadata]]
              ELSE c
        c2 == [c1 EXCEPT !.metadata_count = @ + (IF GUARD_SLABS THEN 2 ELSE 1)]
        metadata == c.metadata_count
        slab == get_slab(class, slab_size, metadata)
    IN IF grows /\ (c.metadata_count >= metadata_max \/ info_fails)
       THEN [metadata |-> NIL, c |-> c, vm |-> v]
       ELSE IF non_zero_size /\ slab_fails
       THEN [metadata |-> NIL, c |-> c2, vm |-> v]
       ELSE [metadata |-> metadata, c |-> c2,
             vm |-> IF non_zero_size THEN memory_protect_rw(v, slab, slab_size) ELSE v]

\* alloc_metadata; metadata = NIL is the NULL return
alloc_metadata(c, v, class, slab_size, non_zero_size, info_fails, slab_fails) ==
    LET metadata_max == get_metadata_max(slab_size)
        grows == c.metadata_count >= c.metadata_allocated
        allocate == Min(c.metadata_allocated * 2, metadata_max)
        c1 == IF grows
              THEN [c EXCEPT !.metadata_allocated = allocate,
                             !.slab_info = [i \in 0 .. (allocate - 1) |->
                                 IF i < c.metadata_allocated THEN c.slab_info[i]
                                 ELSE ZeroMetadata]]
              ELSE c
        metadata == c.metadata_count
        slab == get_slab(class, slab_size, metadata)
    IN IF grows /\ (c.metadata_count >= metadata_max \/ info_fails)
       THEN [metadata |-> NIL, c |-> c, vm |-> v]
       ELSE IF non_zero_size /\ slab_fails
       THEN [metadata |-> NIL, c |-> c1, vm |-> v]
       ELSE [metadata |-> metadata,
             c |-> [c1 EXCEPT !.metadata_count = @ + (IF GUARD_SLABS THEN 2 ELSE 1)],
             vm |-> IF non_zero_size THEN memory_protect_rw(v, slab, slab_size) ELSE v]

\* allocate_small from mutex_lock up to and including get_free_slot.
\* kind: "slot" (metadata and slot chosen), "null" (return NULL) or "fatal".
allocate_small_pick(c, v, class, requested_size, draw, random, info_fails, slab_fails) ==
    LET size == class_object_size(class)
        slots == class_slots(class)
        slab_size == get_slab_size(slots, size)
        Pick(c1, v1, metadata, path) ==
            LET slot == get_free_slot(slots, c1.slab_info[metadata].bitmap, draw)
            IN [kind |-> IF slot = NO_ZERO_BITS THEN "fatal" ELSE "slot",
                c |-> c1, vm |-> v1, metadata |-> metadata, slot |-> slot, path |-> path]
        Null(c1) == [kind |-> "null", c |-> c1, vm |-> v, metadata |-> NIL, slot |-> 0,
                     path |-> "none"]
    IN IF c.partial_slabs # NIL THEN Pick(c, v, c.partial_slabs, "partial")
       ELSE IF c.empty_slabs # NIL
       THEN LET metadata == c.empty_slabs
            IN Pick([c EXCEPT !.empty_slabs = c.slab_info[metadata].next,
                              !.empty_slabs_total = @ - slab_size,
                              !.slab_info[metadata].next = NIL,
                              !.slab_info[metadata].prev = NIL,
                              !.partial_slabs = metadata],
                    v, metadata, "empty")
       ELSE IF c.free_slabs_head # NIL
       THEN LET metadata == c.free_slabs_head
                c1 == [c EXCEPT !.slab_info[metadata].canary_value = random]
                slab == get_slab(class, slab_size, metadata)
                head == c.slab_info[metadata].next
            IN IF requested_size # 0 /\ slab_fails THEN Null(c1)
               ELSE Pick([c1 EXCEPT !.free_slabs_head = head,
                                    !.free_slabs_tail = IF head = NIL THEN NIL ELSE @,
                                    !.slab_info[metadata].next = NIL,
                                    !.slab_info[metadata].prev = NIL,
                                    !.partial_slabs = metadata],
                         IF requested_size # 0 THEN memory_protect_rw(v, slab, slab_size) ELSE v,
                         metadata, "free")
       ELSE LET am == alloc_metadata(c, v, class, slab_size, requested_size # 0,
                                     info_fails, slab_fails)
            IN IF am.metadata = NIL THEN Null(am.c)
               ELSE Pick([am.c EXCEPT !.slab_info[am.metadata].canary_value = canary_masked(random),
                                      !.partial_slabs = am.metadata],
                         am.vm, am.metadata, "new")

set_slot(bitmap, index) == bitmap \cup {index}
clear_slot_mut_noop(bitmap, index) == bitmap
clear_slot(bitmap, index) == bitmap \ {index}
get_slot(bitmap, index) == index \in bitmap

\* allocate_small from set_slot to the return of p.  fatal is "" or the
\* reason the process ends.
allocate_small_commit(c, v, body, tail, class, requested_size, metadata, slot, path) ==
    LET size == class_object_size(class)
        slots == class_slots(class)
        slab_size == get_slab_size(slots, size)
        bitmap == set_slot(c.slab_info[metadata].bitmap, slot)
        c1 == [c EXCEPT !.slab_info[metadata].bitmap = bitmap]
        head == c1.partial_slabs
        next == IF head = NIL THEN NIL ELSE c1.slab_info[head].next
        c2 == IF path = "partial" /\ ~has_free_slots(slots, bitmap) /\ head # NIL
              THEN [c1 EXCEPT !.partial_slabs = next,
                              !.slab_info = IF next = NIL THEN @
                                            ELSE [@ EXCEPT ![next].prev = NIL]]
              ELSE c1
        p == slot_pointer(size, get_slab(class, slab_size, metadata), slot)
        checks == WRITE_AFTER_FREE_CHECK /\ path \in {"partial", "empty"}
        fatal == IF requested_size = 0 THEN ""
                 ELSE IF ~vm_range_is(v, p, p + size, "rw") THEN "SIGSEGV"
                 ELSE IF checks /\ p \in body THEN "detected write after free"
                 ELSE ""
    IN [fatal |-> fatal, c |-> c2, p |-> p,
        tail |-> IF requested_size # 0 /\ fatal = "" /\ canary_size # 0
                 THEN tail_store(tail, p, c.slab_info[metadata].canary_value)
                 ELSE tail]

enqueue_free_slab_mut_push_head(c, metadata) ==
    [c EXCEPT !.slab_info[metadata].next = c.free_slabs_head,
              !.free_slabs_head = metadata,
              !.free_slabs_tail = IF @ = NIL THEN metadata ELSE @]

\* enqueue_free_slab
enqueue_free_slab(c, metadata) ==
    LET c1 == [c EXCEPT !.slab_info[metadata].next = NIL]
        c2 == IF c1.free_slabs_tail # NIL
              THEN [c1 EXCEPT !.slab_info[c1.free_slabs_tail].next = metadata]
              ELSE [c1 EXCEPT !.free_slabs_head = metadata]
    IN [c2 EXCEPT !.free_slabs_tail = metadata]

\* get_metadata: the metadata index of p, NIL for
\* fatal_error("invalid free within a slab yet to be used")
get_metadata(c, class, slab_size, p) ==
    LET offset == size_sub(p, class_region_start(class))
        index == offset \div slab_size
    IN IF index >= c.metadata_allocated THEN NIL ELSE index

deallocate_small_checks_mut_no_bit_check(c, class, p) ==
    LET size == class_object_size(class)
        slab_size == get_slab_size(class_slots(class), size)
        metadata == get_metadata(c, class, slab_size, p)
        slab == get_slab(class, slab_size, metadata)
        slot == (p - slab) \div size
    IN IF metadata = NIL THEN "invalid free within a slab yet to be used"
       ELSE IF slot_pointer(size, slab, slot) # p THEN "invalid unaligned free"
       ELSE IF ~check_index(slot) THEN "invalid index"
       ELSE ""

\* the checks of deallocate_small between mutex_lock and the first write:
\* "" when p passes them, else the fatal_error message
deallocate_small_checks(c, class, p) ==
    LET size == class_object_size(class)
        slab_size == get_slab_size(class_slots(class), size)
        metadata == get_metadata(c, class, slab_size, p)
        slab == get_slab(class, slab_size, metadata)
        slot == (p - slab) \div size
    IN IF metadata = NIL THEN "invalid free within a slab yet to be used"
       ELSE IF slot_pointer(size, slab, slot) # p THEN "invalid unaligned free"
       ELSE IF ~check_index(slot) THEN "invalid index"
       ELSE IF ~get_slot(c.slab_info[metadata].bitmap, slot) THEN "double free"
       ELSE ""

\* deallocate_small from mutex_lock to mutex_unlock
deallocate_small_body(c, v, body, tail, class, p, map_fixed_fails) ==
    LET size == class_object_size(class)
        is_zero_size == class_size(class) = 0
        slots == class_slots(class)
        slab_size == get_slab_size(slots, size)
        check == deallocate_small_checks(c, class, p)
        metadata == get_metadata(c, class, slab_size, p)
        slab == get_slab(class, slab_size, metadata)
        slot == (p - slab) \div size
        \* memset and the canary comparison
        touches == ~is_zero_size /\ (ZERO_ON_FREE \/ canary_size # 0)
        segv == touches /\ ~vm_range_is(v, p, p + size, "rw")
        body1 == IF ~is_zero_size /\ ZERO_ON_FREE THEN body \ {p} ELSE body
        corrupted == ~is_zero_size /\ canary_size # 0
                     /\ tail_of(tail, p) # c.slab_info[metadata].canary_value
        \* a full slab goes back to the head of the partial list
        was_full == ~has_free_slots(slots, c.slab_info[metadata].bitmap)
        c1 == IF was_full
              THEN [c EXCEPT !.slab_info = [i \in DOMAIN @ |->
                                 IF i = metadata
                                 THEN [@[i] EXCEPT !.next = c.partial_slabs, !.prev = NIL]
                                 ELSE IF i = c.partial_slabs
                                 THEN [@[i] EXCEPT !.prev = metadata]
                                 ELSE @[i]],
                             !.partial_slabs = metadata]
              ELSE c
        c2 == [c1 EXCEPT !.slab_info[metadata].bitmap = clear_slot(@, slot)]
        \* an empty slab leaves the partial list
        prev == c2.slab_info[metadata].prev
        next == c2.slab_info[metadata].next
        c3 == [c2 EXCEPT !.slab_info = [i \in DOMAIN @ |->
                             IF i = metadata THEN [@[i] EXCEPT !.prev = NIL]
                             ELSE IF i = prev /\ i = next
                             THEN [@[i] EXCEPT !.next = next, !.prev = prev]
                             ELSE IF i = prev THEN [@[i] EXCEPT !.next = next]
                             ELSE IF i = next THEN [@[i] EXCEPT !.prev = prev]
                             ELSE @[i]],
                         !.partial_slabs = IF prev = NIL THEN next ELSE @]
        purge == exceeds_budget(c3.empty_slabs_total, slab_size) /\ ~map_fixed_fails
        c4 == IF purge THEN enqueue_free_slab(c3, metadata)
              ELSE [c3 EXCEPT !.slab_info[metadata].next = c3.empty_slabs,
                              !.empty_slabs = metadata,
                              !.empty_slabs_total = @ + slab_size]
        empty == is_free_slab(c2.slab_info[metadata].bitmap)
    IN IF check # "" THEN [fatal |-> check, c |-> c, vm |-> v, body |-> body, tail |-> tail]
       ELSE IF segv THEN [fatal |-> "SIGSEGV", c |-> c, vm |-> v, body |-> body, tail |-> tail]
       ELSE IF corrupted
       THEN [fatal |-> "canary corrupted", c |-> c, vm |-> v, body |-> body1, tail |-> tail]
       ELSE IF ~empty
       THEN [fatal |-> "", c |-> c2, vm |-> v, body |-> body1, tail |-> tail]
       ELSE [fatal |-> "", c |-> c4,
             vm |-> IF purge THEN memory_map_fixed(v, slab, slab_size) ELSE v,
             body |-> IF purge THEN body_drop(body1, slab, slab + slab_size) ELSE body1,
             tail |-> IF purge THEN tail_drop(tail, slab, slab + slab_size) ELSE tail]

RECURSIVE trim_walk_mut_keeps_total(_, _, _, _, _, _)
trim_walk_mut_keeps_total(c, v, body, tail, class, moves) ==
    IF c.empty_slabs = NIL \/ moves = 0
    THEN [c |-> c, vm |-> v, body |-> body, tail |-> tail]
    ELSE LET slab_size == get_slab_size(class_slots(class), class_size(class))
             trimmed == c.empty_slabs
             slab == get_slab(class, slab_size, trimmed)
             c1 == [c EXCEPT !.empty_slabs = c.slab_info[trimmed].next]
         IN trim_walk_mut_keeps_total(enqueue_free_slab(c1, trimmed),
                                      memory_map_fixed(v, slab, slab_size),
                                      body_drop(body, slab, slab + slab_size),
                                      tail_drop(tail, slab, slab + slab_size),
                                      class, moves - 1)

RECURSIVE trim_walk(_, _, _, _, _, _)
\* the walk of h_malloc_trim over a class's empty list, the first `moves`
\* calls of memory_map_fixed succeeding and the next one failing
trim_walk(c, v, body, tail, class, moves) ==
    IF c.empty_slabs = NIL \/ moves = 0
    THEN [c |-> c, vm |-> v, body |-> body, tail |-> tail]
    ELSE LET slab_size == get_slab_size(class_slots(class), class_size(class))
             trimmed == c.empty_slabs
             slab == get_slab(class, slab_size, trimmed)
             c1 == [c EXCEPT !.empty_slabs = c.slab_info[trimmed].next,
                             !.empty_slabs_total = @ - slab_size]
         IN trim_walk(enqueue_free_slab(c1, trimmed),
                      memory_map_fixed(v, slab, slab_size),
                      body_drop(body, slab, slab + slab_size),
                      tail_drop(tail, slab, slab + slab_size),
                      class, moves - 1)

RECURSIVE empty_list(_, _, _)
\* the metadata indices on the empty list from `metadata` on, in list order
empty_list(c, metadata, fuel) ==
    IF metadata = NIL \/ fuel = 0 THEN << >>
    ELSE << metadata >> \o empty_list(c, c.slab_info[metadata].next, fuel - 1)

\* ------------------------------------------------------------------------
\* State
\* ------------------------------------------------------------------------
NumThreads == 2
Threads == 1 .. NumThreads
NoThread == 0

VARIABLES
    size_class_metadata,   \* per class: the lists, counters and slab_info
    class_lock,            \* per class: the thread holding c->lock, or NoThread
    ro_regions,            \* the two buffers ro.regions[0], ro.regions[1]
    regions,               \* which of the two is the table (1 or 2)
    regions_total,
    regions_free,
    regions_lock,          \* the thread holding regions_lock, or NoThread
    vm,                    \* the address space: maximal mapped segments
    mem_body,              \* slots whose user bytes are not all zero
    mem_tail,              \* slots' last 8 bytes where not zero
    pc,                    \* per thread: where it is in its call
    frame,                 \* per thread: the call's arguments and locals
    aborted,               \* "" or why the process ended
    live,                  \* bag of the pointers handed out and not yet freed
    snap,                  \* the last call, if checked: the state it found, its result
    q,                     \* the last call resolved by the dispatcher alone
    deletes,               \* how many regions_delete calls the table workload has made
    ro,                    \* the root structure: slab region, table buffers, initialized
    init_lock,             \* the thread holding init_slow_path's static lock, or NoThread
    init_runs,             \* how many times init_slow_path went past its is_init() test
    atfork_registered,     \* pthread_atfork(full_lock, full_unlock, post_fork_child) returned
    child,                 \* the process fork() made: its copy of the locks, its progress
    dirtied                \* freed slots the program has stored into

slab_vars == << size_class_metadata, class_lock >>
region_vars == << ro_regions, regions, regions_total, regions_free, regions_lock >>
mem_vars == << vm, mem_body, mem_tail >>
thread_vars == << pc, frame >>
vars == << size_class_metadata, class_lock, ro_regions, regions, regions_total,
           regions_free, regions_lock, vm, mem_body, mem_tail, pc, frame, aborted,
           live, snap, q, deletes, ro, init_lock, init_runs, atfork_registered, child,
           dirtied >>
process_vars == << ro, init_lock, init_runs, atfork_registered, child >>

\* a class after init_slow_path: no slabs, MetadataInit committed entries
InitClass ==
    [partial_slabs |-> NIL, empty_slabs |-> NIL, empty_slabs_total |-> 0,
     free_slabs_head |-> NIL, free_slabs_tail |-> NIL,
     metadata_allocated |-> MetadataInit, metadata_count |-> 0,
     slab_info |-> [i \in 0 .. (MetadataInit - 1) |-> ZeroMetadata]]

NoFrame ==
    [op |-> "none", checked |-> FALSE, p |-> NULL, n |-> 0, alignment |-> 0,
     expected |-> -1, size |-> 0, class |-> -1, metadata |-> NIL, slot |-> 0,
     path |-> "none", mode |-> "none", new |-> NULL, old_size |-> 0,
     old_guard_size |-> 0, guard_size |-> 0, is_trimmed |-> FALSE]

NoQuery ==
    [entry |-> "none", n |-> 0, alignment |-> 0, old |-> NoPlan, plan |-> NoPlan,
     moved |-> FALSE, copy_size |-> -1, outcome |-> ""]

\* no checked call has been made
NoSnap ==
    [taken |-> FALSE, done |-> FALSE, op |-> "none", p |-> NULL, n |-> 0, ret |-> NULL,
     was_live |-> FALSE, copy_size |-> -1,
     size_class_metadata |-> << >>, table |-> << >>, regions_free |-> 0,
     mem_body |-> {}, mem_tail |-> << >>, vm |-> {}]

\* ro once init_slow_path has stored every field
InitRo ==
    [slab_region_start |-> slab_region_start, slab_region_end |-> slab_region_end,
     regions |-> << TRUE, TRUE >>, initialized |-> TRUE]

\* no fork() has been made
NoChild ==
    [state |-> "none", is_init |-> FALSE, handlers |-> FALSE, regions_lock |-> NoThread,
     class_lock |-> [class \in AllClasses |-> NoThread], reseeded |-> FALSE]

\* ro and a class as the loader leaves them: static storage, all zero
ZeroRo ==
    [slab_region_start |-> NULL, slab_region_end |-> NULL,
     regions |-> << FALSE, FALSE >>, initialized |-> FALSE]

ZeroClass ==
    [partial_slabs |-> NIL, empty_slabs |-> NIL, empty_slabs_total |-> 0,
     free_slabs_head |-> NIL, free_slabs_tail |-> NIL,
     metadata_allocated |-> 0, metadata_count |-> 0,
     slab_info |-> [i \in {} |-> ZeroMetadata]]

\* the state after init_slow_path has run
Init ==
    /\ size_class_metadata = [class \in AllClasses |-> InitClass]
    /\ class_lock = [class \in AllClasses |-> NoThread]
    /\ ro_regions = << ZeroBuffer, ZeroBuffer >>
    /\ regions = 1
    /\ regions_total = initial_region_table_size
    /\ regions_free = initial_region_table_size
    /\ regions_lock = NoThread
    /\ vm = { Segment(slab_region_start, slab_region_end, "none") }
    /\ mem_body = {}
    /\ mem_tail = << >>
    /\ pc = [t \in Threads |-> "idle"]
    /\ frame = [t \in Threads |-> NoFrame]
    /\ aborted = ""
    /\ live = EmptyBag
    /\ snap = NoSnap
    /\ q = NoQuery
    /\ deletes = 0
    /\ ro = InitRo
    /\ init_lock = NoThread
    /\ init_runs = 1
    /\ atfork_registered = TRUE
    /\ child = NoChild
    /\ dirtied = {}

\* mutex_lock can return when no thread holds the mutex
mutex_lock(holder) == holder = NoThread

BagAdd(bag, x) == bag (+) SetToBag({x})
BagRemove(bag, x) == bag (-) SetToBag({x})

\* where allocate(size) starts
allocate_entry(size) ==
    IF size <= max_slab_size_class THEN "allocate_small_lock" ELSE "allocate_guard_lock"

\* ------------------------------------------------------------------------
\* The dispatcher on its own: each public entry point resolved for one
\* request, the backends succeeding
\* ------------------------------------------------------------------------
\* request sizes around the class, canary and page boundaries
QuerySizes ==
    {0, 1, 8, 16, 24, 100, 120, 128, 4082, 4088, 4090, 4096, 5000, 16376, 16377,
     16380, 16384, 16385, 20000, 20480, 20481, mremap_threshold, mremap_threshold + 5000}
QueryAlignments == {0, 3, 8, 16, 64, 4096, 8192}
QueryOldAlignments == {16, 8192}

Query(entry, n, alignment, plan) ==
    [NoQuery EXCEPT !.entry = entry, !.n = n, !.alignment = alignment, !.plan = plan]

\* one request is resolved per behaviour
engine_vars ==
    << slab_vars, region_vars, mem_vars, thread_vars, aborted, live, snap, deletes,
       process_vars, dirtied >>

Q_h_malloc(n) ==
    /\ q = NoQuery
    /\ q' = Query("h_malloc", n, 0, h_malloc_plan(n))
    /\ UNCHANGED engine_vars

Q_h_calloc(nmemb, size) ==
    /\ q = NoQuery
    /\ q' = Query("h_calloc", nmemb * size, 0, h_calloc_plan(nmemb, size))
    /\ UNCHANGED engine_vars

Q_h_posix_memalign(alignment, n) ==
    /\ q = NoQuery
    /\ q' = Query("h_posix_memalign", n, alignment, h_posix_memalign_plan(alignment, n))
    /\ UNCHANGED engine_vars

Q_h_aligned_alloc(alignment, n) ==
    /\ q = NoQuery
    /\ q' = Query("h_aligned_alloc", n, alignment, h_aligned_alloc_plan(alignment, n))
    /\ UNCHANGED engine_vars

Q_h_valloc(n) ==
    /\ q = NoQuery
    /\ q' = Query("h_valloc", n, PAGE_SIZE, h_valloc_plan(n))
    /\ UNCHANGED engine_vars

Q_h_pvalloc(n) ==
    /\ q = NoQuery
    /\ q' = Query("h_pvalloc", n, PAGE_SIZE, h_pvalloc_plan(n))
    /\ UNCHANGED engine_vars

\* the block a later call is given: h_malloc(m), or for an alignment above
\* PAGE_SIZE h_posix_memalign(&p, alignment, m)
old_plan(alignment, m) ==
    IF alignment <= PAGE_SIZE THEN h_malloc_plan(m) ELSE h_posix_memalign_plan(alignment, m)

\* h_realloc(old, n), old = NULL when old_alignment = 0; remap_fails is
\* memory_remap_fixed failing on the mremap path
Q_h_realloc(old_alignment, m, n, remap_fails) ==
    LET old == old_plan(old_alignment, m)
        size == adjust_size_for_canaries(n)
        old_size == old.size
        base == [Query("h_realloc", n, old_alignment, allocate_plan(size))
                    EXCEPT !.old = old]
        in_place == [base EXCEPT !.plan = IF old.kind = "small" THEN old ELSE LargePlan(size),
                                 !.outcome = "in place"]
        copied == [base EXCEPT !.moved = TRUE,
                               !.copy_size = realloc_copy_size(size, old_size),
                               !.outcome = realloc_free_backend(old_size)]
    IN /\ q = NoQuery
       /\ UNCHANGED engine_vars
       /\ q' =
          IF old_alignment = 0 THEN Query("h_realloc", n, 0, allocate_plan(size))
               ELSE IF old.kind = "small"
               THEN IF realloc_same_class(size, old_size) THEN in_place ELSE copied
               ELSE IF realloc_in_place(size, old_size) \/ realloc_shrink(size, old_size)
               THEN in_place
               ELSE IF realloc_remap(size, old_size)
               THEN IF remap_fails
                    THEN [base EXCEPT !.moved = TRUE, !.copy_size = Min(size, old_size),
                                      !.outcome = "large"]
                    ELSE [base EXCEPT !.outcome = "remapped"]
               ELSE copied

\* h_free_sized(p, n) for p = h_malloc(m)
Q_h_free_sized(m, n) ==
    LET old == h_malloc_plan(m)
        expected == IF old.kind = "small" THEN free_sized_expected_small(n)
                    ELSE free_sized_expected_large(n)
    IN /\ q = NoQuery
       /\ UNCHANGED engine_vars
       /\ q' = [Query("h_free_sized", n, 16, NoPlan) EXCEPT
                   !.old = old,
                   !.copy_size = m,
                   !.outcome = IF expected = INVALID_SIZE_INFO.size
                               THEN "invalid size for slabs"
                               ELSE IF old.size # expected
                               THEN "sized deallocation mismatch"
                               ELSE "freed"]

DispatcherNext ==
    \/ \E n \in QuerySizes : Q_h_malloc(n)
    \/ \E nmemb \in {0, 1, 2, 4}, size \in {0, 8, 4094, 4096} : Q_h_calloc(nmemb, size)
    \/ \E alignment \in QueryAlignments, n \in QuerySizes : Q_h_posix_memalign(alignment, n)
    \/ \E alignment \in QueryAlignments, n \in QuerySizes : Q_h_aligned_alloc(alignment, n)
    \/ \E n \in QuerySizes : Q_h_valloc(n)
    \/ \E n \in QuerySizes : Q_h_pvalloc(n)
    \/ \E a \in {0} \cup QueryOldAlignments, m \in QuerySizes, n \in QuerySizes,
          remap_fails \in BOOLEAN : Q_h_realloc(a, m, n, remap_fails)
    \/ \E m \in QuerySizes, n \in QuerySizes : Q_h_free_sized(m, n)

SpecDispatcher == Init /\ [][DispatcherNext]_vars


\* ------------------------------------------------------------------------
\* Properties of the dispatcher
\* ------------------------------------------------------------------------
AllocatingEntries ==
    {"h_malloc", "h_calloc", "h_realloc", "h_posix_memalign", "h_aligned_alloc",
     "h_valloc", "h_pvalloc"}

QuerySucceeded == q.entry \in AllocatingEntries /\ q.plan.kind \in {"small", "large"}

\* C5: every request of n bytes that succeeds through an allocating entry
\* point yields a block whose h_malloc_usable_size is at least n, and for
\* h_pvalloc at least n rounded up to a page.
C5_UsableSizeCoversRequest ==
    QuerySucceeded =>
        plan_usable_size(q.plan) >=
            (IF q.entry = "h_pvalloc" THEN PAGE_CEILING(q.n) ELSE q.n)

\* an h_pvalloc request of at most max_slab_size_class bytes has succeeded
C5_PvallocSmallServed ==
    /\ q.entry = "h_pvalloc"
    /\ q.plan.kind = "small"
    /\ plan_usable_size(q.plan) < PAGE_CEILING(q.n)

\* C6: for p = h_malloc(m), h_free_sized(p, n) frees p when n = m, and ends
\* in "sized deallocation mismatch" exactly when n does not correspond to
\* the recorded size of p: for a slab pointer the class of the canary-adjusted
\* n differs from the class of p, for a large pointer n differs from m.
C6_SizedFreeMatchesRequest ==
    q.entry = "h_free_sized" =>
        LET m == q.copy_size
            adjusted == adjust_size_for_canaries(q.n)
        IN /\ q.n = m => q.outcome = "freed"
           /\ q.old.kind = "small" /\ adjusted <= max_slab_size_class =>
                 (q.outcome = "sized deallocation mismatch"
                     <=> get_size_info(adjusted).class # q.old.class)
           /\ q.old.kind = "large" =>
                 (q.outcome = "sized deallocation mismatch" <=> q.n # m)

\* h_free_sized(p, m) on a large p = h_malloc(m) ends the process
C6_LargeExactSizeRejected ==
    /\ q.entry = "h_free_sized"
    /\ q.old.kind = "large"
    /\ q.n = q.copy_size
    /\ q.outcome = "sized deallocation mismatch"

\* C8: whenever h_realloc(old, n) moves the allocation by copying, the byte
\* count given to memcpy is min(n, usable_size(old)).
C8_CopySizeIsMinOfRequestAndUsable ==
    q.entry = "h_realloc" /\ q.moved =>
        q.copy_size = Min(q.n, plan_usable_size(q.old))

\* h_realloc of a zero-size block to a small size has copied
C8_ZeroSizeOldCopied ==
    /\ q.entry = "h_realloc"
    /\ q.moved
    /\ q.old.kind = "small"
    /\ q.old.size = 0
    /\ q.copy_size > max_slab_size_class


\* ------------------------------------------------------------------------
\* The region table on its own: regions_insert and regions_delete called
\* as allocate and deallocate_large call them, regions_lock held
\* ------------------------------------------------------------------------
\* page numbers of the keys, in the order the workload first inserts them;
\* their buckets collide in the 8-, 16- and 32-slot tables
RegionKeyBase == 2 * PAGE_SIZE
RegionKeyPages == << 0, 8, 16, 1, 9, 7, 15, 24, 2, 3, 32, 4, 5, 6, 12, 20 >>
MaxKeys == 15
MaxDeletes == 2
RegionKeys == { (RegionKeyBase + RegionKeyPages[k]) * PAGE_SIZE : k \in 1 .. MaxKeys }
KeyOrder(p) == CHOOSE k \in 1 .. MaxKeys : (RegionKeyBase + RegionKeyPages[k]) * PAGE_SIZE = p

RegionState ==
    [ro_regions |-> ro_regions, regions |-> regions, total |-> regions_total,
     free |-> regions_free]

\* the keys inserted and not deleted since
PresentKeys == BagToSet(live)

\* the workload inserts the first absent key, or the key after the last present one
NextKeys ==
    LET absent == RegionKeys \ PresentKeys
        after == { p \in absent : \A x \in PresentKeys : KeyOrder(x) < KeyOrder(p) }
        First(S) == { p \in S : \A x \in S : KeyOrder(p) <= KeyOrder(x) }
    IN First(absent) \cup First(after)

table_vars ==
    << slab_vars, regions_lock, mem_vars, thread_vars, aborted, snap, q, process_vars,
       dirtied >>

RegionsInsert(p, size, guard_size, protect_fails, map_fixed_fails) ==
    LET r == regions_insert(RegionState, p, size, guard_size, protect_fails, map_fixed_fails)
    IN /\ ~r.hangs
       /\ ro_regions' = r.rs.ro_regions
       /\ regions' = r.rs.regions
       /\ regions_total' = r.rs.total
       /\ regions_free' = r.rs.free
       /\ live' = IF r.ok THEN BagAdd(live, p) ELSE live
       /\ UNCHANGED << table_vars, deletes >>

\* regions_delete(regions_find(p)) for a key p that is present
RegionsDelete(p) ==
    LET region == regions_find(ActiveTable(RegionState), regions_total, p)
    IN /\ deletes < MaxDeletes
       /\ region >= 0
       /\ ro_regions' = [ro_regions EXCEPT
                            ![regions] = regions_delete(@, regions_total, region)]
       /\ regions_free' = regions_free + 1
       /\ live' = BagRemove(live, p)
       /\ deletes' = deletes + 1
       /\ UNCHANGED << table_vars, regions, regions_total >>

RegionsNext ==
    \/ \E p \in NextKeys, protect_fails \in BOOLEAN, map_fixed_fails \in BOOLEAN :
          RegionsInsert(p, 5 * PAGE_SIZE, PAGE_SIZE, protect_fails, map_fixed_fails)
    \/ \E p \in PresentKeys : RegionsDelete(p)

SpecRegions == Init /\ [][RegionsNext]_vars

\* the keys stored in the slots of the table
TableKeys == { ActiveTable(RegionState)[i].p : i \in 0 .. (regions_total - 1) } \ {NULL}

\* C3: every key inserted and not deleted is returned by regions_find,
\* regions_find returns NULL for every other key, and no key occupies two
\* slots of the table.
C3_RegionTableFindable ==
    LET tab == ActiveTable(RegionState)
    IN /\ \A p \in PresentKeys :
             LET index == regions_find(tab, regions_total, p)
             IN index >= 0 /\ tab[index].p = p
       /\ \A p \in RegionKeys \ PresentKeys :
             regions_find(tab, regions_total, p) = NOT_FOUND
       /\ \A i, j \in 0 .. (regions_total - 1) :
             i # j /\ tab[i].p # NULL => tab[i].p # tab[j].p

\* C4 as stated: the load factor (regions_total - regions_free) / regions_total
\* stays below 50%.
C4_LoadBelowHalf == (regions_total - regions_free) * 2 < regions_total

\* C4: regions_insert grows the table only when fewer than a quarter of the
\* slots are free, so the load factor stays at or below 75% plus one entry.
C4_LoadAtMostThreeQuartersPlusOne == regions_free * 4 >= regions_total - 4

\* the table is more than half full with no grow pending
C4_MoreThanHalfFull ==
    /\ (regions_total - regions_free) * 2 > regions_total
    /\ ~regions_needs_grow(regions_free, regions_total)


\* ------------------------------------------------------------------------
\* Threads calling the public entry points
\* ------------------------------------------------------------------------
workload_vars == << q, deletes, process_vars, dirtied >>

Idle(t) == pc[t] = "idle" /\ aborted = ""
At(t, loc) == pc[t] = loc /\ aborted = ""

Goto(t, loc, f) ==
    /\ pc' = [pc EXCEPT ![t] = loc]
    /\ frame' = [frame EXCEPT ![t] = f]

IsLive(p) == BagIn(p, live)

\* the engine's state as a checked call finds it
Snapshot(f) ==
    [taken |-> TRUE, done |-> FALSE, op |-> f.op, p |-> f.p, n |-> f.n, ret |-> NULL,
     was_live |-> IsLive(f.p), copy_size |-> -1,
     size_class_metadata |-> size_class_metadata,
     table |-> IF regions = NULL THEN << >> ELSE ActiveTable(RegionState),
     regions_free |-> regions_free,
     mem_body |-> mem_body, mem_tail |-> mem_tail, vm |-> vm]

\* a thread enters a public entry point and goes on at loc
Enter(t, f, loc) ==
    /\ Idle(t)
    /\ Goto(t, loc, f)
    /\ snap' = IF f.checked THEN Snapshot(f) ELSE NoSnap

\* the entry point returns ret to its caller
Return(t, ret) ==
    /\ Goto(t, "idle", NoFrame)
    /\ snap' = IF frame[t].checked THEN [snap EXCEPT !.done = TRUE, !.ret = ret] ELSE snap

\* an entry point that returns without leaving its first step
EnterAndReturn(t, f, ret) ==
    /\ Idle(t)
    /\ UNCHANGED << pc, frame >>
    /\ snap' = IF f.checked THEN [Snapshot(f) EXCEPT !.done = TRUE, !.ret = ret] ELSE NoSnap

\* fatal_error(msg), or the signal that ends the process
Fatal(msg) ==
    /\ aborted' = msg
    /\ UNCHANGED << pc, frame, snap >>

\* allocate() hands p to the entry point that called it
AllocateReturns(t, p) ==
    LET f == frame[t]
    IN IF f.op = "h_realloc" /\ f.p # NULL /\ p # NULL
       THEN /\ Goto(t, IF f.mode = "remap" THEN "realloc_remap_lock" ELSE "realloc_copy",
                    [f EXCEPT !.new = p, !.metadata = NIL, !.slot = 0, !.path = "none",
                              !.class = -1, !.guard_size = 0])
            /\ UNCHANGED snap
       ELSE Return(t, p)

\* deallocate_small / deallocate_large hands control back
DeallocateReturns(t) ==
    Return(t, IF frame[t].op = "h_realloc" THEN frame[t].new ELSE NULL)

\* init(): where a call goes on, past init_slow_path if is_init() is false
init(loc) == IF ro.initialized THEN loc ELSE "init_slow_path_lock"

\* init_slow_path: mutex_lock(&lock)
init_slow_path_lock(t) ==
    /\ At(t, "init_slow_path_lock")
    /\ mutex_lock(init_lock)
    /\ init_lock' = t
    /\ pc' = [pc EXCEPT ![t] = "init_slow_path"]
    /\ UNCHANGED << slab_vars, region_vars, mem_vars, frame, aborted, live, snap, q, deletes,
                    ro, init_runs, atfork_registered, child, dirtied >>

\* init_slow_path under its lock: the second is_init() test, then the table
\* buffers and the slab region; error is "" or the fatal_error of the step
init_slow_path(t, error) ==
    /\ At(t, "init_slow_path")
    /\ IF ro.initialized
       THEN /\ error = ""
            /\ init_lock' = NoThread
            /\ Goto(t, allocate_entry(frame[t].size), frame[t])
            /\ UNCHANGED << ro, regions, vm, init_runs, aborted >>
       ELSE /\ init_runs' = init_runs + 1
            /\ IF error # ""
               THEN /\ aborted' = error
                    /\ UNCHANGED << ro, regions, vm, pc, frame >>
               ELSE /\ ro' = [ro EXCEPT !.regions = << TRUE, TRUE >>,
                                        !.slab_region_start = slab_region_start,
                                        !.slab_region_end = slab_region_end]
                    /\ regions' = 1
                    /\ vm' = vm \cup { Segment(slab_region_start, slab_region_end, "none") }
                    /\ Goto(t, "init_class", [frame[t] EXCEPT !.class = 0])
                    /\ UNCHANGED aborted
            /\ UNCHANGED init_lock
    /\ UNCHANGED << slab_vars, ro_regions, regions_total, regions_free, regions_lock,
                    mem_body, mem_tail, live, snap, q, deletes, atfork_registered, child,
                    dirtied >>

\* where init_slow_path goes on after setting up a class
after_class_mut_first_only(class) == "init_publish"

after_class(class) ==
    IF class + 1 < N_SIZE_CLASSES THEN "init_class" ELSE "init_publish"

\* init_slow_path: one round of the loop over the classes
init_class(t, fails) ==
    LET f == frame[t]
    IN /\ At(t, "init_class")
       /\ IF fails
          THEN /\ aborted' = "failed to allocate slab metadata"
               /\ UNCHANGED << size_class_metadata, class_lock, pc, frame >>
          ELSE /\ size_class_metadata' = [size_class_metadata EXCEPT ![f.class] = InitClass]
               /\ class_lock' = [class_lock EXCEPT ![f.class] = NoThread]
               /\ Goto(t, after_class(f.class), [f EXCEPT !.class = f.class + 1])
               /\ UNCHANGED aborted
       /\ UNCHANGED << region_vars, mem_vars, live, snap, workload_vars >>

\* init_slow_path: atomic_store_explicit(&ro.initialized, true, release)
init_publish(t) ==
    /\ At(t, "init_publish")
    /\ ro' = [ro EXCEPT !.initialized = TRUE]
    /\ pc' = [pc EXCEPT ![t] = "init_protect"]
    /\ UNCHANGED << slab_vars, region_vars, mem_vars, frame, aborted, live, snap, q, deletes,
                    init_lock, init_runs, atfork_registered, child, dirtied >>

\* init_slow_path: memory_protect_ro(&ro) and mutex_unlock(&lock)
init_protect(t, fails) ==
    /\ At(t, "init_protect")
    /\ IF fails
       THEN /\ aborted' = "failed to protect allocator data"
            /\ UNCHANGED << pc, init_lock >>
       ELSE /\ init_lock' = NoThread
            /\ pc' = [pc EXCEPT ![t] = "init_atfork"]
            /\ UNCHANGED aborted
    /\ UNCHANGED << slab_vars, region_vars, mem_vars, frame, live, snap, q, deletes, ro,
                    init_runs, atfork_registered, child, dirtied >>

\* init_slow_path: pthread_atfork(full_lock, full_unlock, post_fork_child),
\* and the return into the call that ran init()
init_atfork(t, fails) ==
    /\ At(t, "init_atfork")
    /\ IF fails
       THEN /\ aborted' = "pthread_atfork failed"
            /\ UNCHANGED << pc, frame, atfork_registered >>
       ELSE /\ atfork_registered' = TRUE
            /\ Goto(t, allocate_entry(frame[t].size), frame[t])
            /\ UNCHANGED aborted
    /\ UNCHANGED << slab_vars, region_vars, mem_vars, live, snap, q, deletes, ro, init_lock,
                    init_runs, child, dirtied >>

\* what fork() copies into the child: the locks as they are at that moment
ChildCopy(handlers) ==
    [state |-> IF handlers THEN "forked" ELSE "running",
     is_init |-> ro.initialized, handlers |-> handlers,
     regions_lock |-> regions_lock, class_lock |-> class_lock, reseeded |-> FALSE]

\* the program calls fork(): with handlers registered the prepare handler
\* full_lock runs first, without them the address space is copied at once
fork(t) ==
    /\ Idle(t)
    /\ child.state = "none"
    /\ IF atfork_registered
       THEN /\ Goto(t, "full_lock", [NoFrame EXCEPT !.op = "fork", !.class = -1])
            /\ UNCHANGED child
       ELSE /\ child' = ChildCopy(FALSE)
            /\ UNCHANGED << pc, frame >>
    /\ UNCHANGED << slab_vars, region_vars, mem_vars, aborted, live, snap, q, deletes, ro,
                    init_lock, init_runs, atfork_registered, dirtied >>

\* the lock full_lock takes in its round k: regions_lock (-1), then the
\* class locks
full_lock_order_mut_descending(k) == IF k = -1 THEN -1 ELSE N_SIZE_CLASSES - 1 - k

full_lock_order(k) == k

\* full_lock: one mutex_lock
full_lock(t) ==
    LET f == frame[t]
        target == full_lock_order(f.class)
    IN /\ At(t, "full_lock")
       /\ IF target = -1
          THEN /\ mutex_lock(regions_lock)
               /\ regions_lock' = t
               /\ UNCHANGED class_lock
          ELSE /\ mutex_lock(class_lock[target])
               /\ class_lock' = [class_lock EXCEPT ![target] = t]
               /\ UNCHANGED regions_lock
       /\ Goto(t, IF f.class + 1 < N_SIZE_CLASSES THEN "full_lock" ELSE "fork_copy",
               [f EXCEPT !.class = f.class + 1])
       /\ UNCHANGED << size_class_metadata, ro_regions, regions, regions_total,
                       regions_free, mem_vars, aborted, live, snap, workload_vars >>

\* fork() itself, after the prepare handler
fork_copy(t) ==
    /\ At(t, "fork_copy")
    /\ child' = ChildCopy(TRUE)
    /\ pc' = [pc EXCEPT ![t] = "full_unlock"]
    /\ UNCHANGED << slab_vars, region_vars, mem_vars, frame, aborted, live, snap, q, deletes,
                    ro, init_lock, init_runs, atfork_registered, dirtied >>

\* full_unlock in the parent
full_unlock(t) ==
    /\ At(t, "full_unlock")
    /\ regions_lock' = IF regions_lock = t THEN NoThread ELSE regions_lock
    /\ class_lock' = [class \in AllClasses |->
                         IF class_lock[class] = t THEN NoThread ELSE class_lock[class]]
    /\ Goto(t, "idle", NoFrame)
    /\ UNCHANGED << size_class_metadata, ro_regions, regions, regions_total, regions_free,
                    mem_vars, aborted, live, snap, workload_vars >>

\* post_fork_child in the child: every mutex_init and random_state_init
post_fork_child ==
    /\ aborted = ""
    /\ child.state = "forked"
    /\ child' = [child EXCEPT !.state = "running",
                              !.regions_lock = NoThread,
                              !.class_lock = [class \in AllClasses |-> NoThread],
                              !.reseeded = TRUE]
    /\ UNCHANGED << slab_vars, region_vars, mem_vars, thread_vars, aborted, live, snap, q,
                    deletes, ro, init_lock, init_runs, atfork_registered, dirtied >>

\* the child's next h_malloc(n), from its mutex_lock to its return
child_h_malloc(n) ==
    LET size == adjust_size_for_canaries(n)
        lock == IF size <= max_slab_size_class
                THEN child.class_lock[get_size_info(size).class]
                ELSE child.regions_lock
    IN /\ aborted = ""
       /\ child.state = "running"
       /\ mutex_lock(lock)
       /\ child' = [child EXCEPT !.state = "done"]
       /\ UNCHANGED << slab_vars, region_vars, mem_vars, thread_vars, aborted, live, snap, q,
                       deletes, ro, init_lock, init_runs, atfork_registered, dirtied >>

h_malloc(t, n, checked) ==
    LET size == adjust_size_for_canaries(n)
        f == [NoFrame EXCEPT !.op = "h_malloc", !.checked = checked, !.n = n, !.size = size]
    IN /\ Enter(t, f, init(allocate_entry(size)))
       /\ UNCHANGED << slab_vars, region_vars, mem_vars, aborted, live, workload_vars >>

h_calloc(t, nmemb, size, checked) ==
    LET total_size == adjust_size_for_canaries(nmemb * size)
        f == [NoFrame EXCEPT !.op = "h_calloc", !.checked = checked, !.n = nmemb * size,
                             !.size = total_size]
    IN /\ IF nmemb * size > SIZE_MAX
          THEN EnterAndReturn(t, f, NULL)
          ELSE Enter(t, f, init(allocate_entry(total_size)))
       /\ UNCHANGED << slab_vars, region_vars, mem_vars, aborted, live, workload_vars >>

\* allocate_small: mutex_lock(&c->lock)
allocate_small_lock(t) ==
    LET class == get_size_info(frame[t].size).class
    IN /\ At(t, "allocate_small_lock")
       /\ mutex_lock(class_lock[class])
       /\ class_lock' = [class_lock EXCEPT ![class] = t]
       /\ Goto(t, "allocate_small_slot", [frame[t] EXCEPT !.class = class])
       /\ UNCHANGED << size_class_metadata, region_vars, mem_vars, aborted, live, snap,
                       workload_vars >>

\* allocate_small: a slab is chosen or made, and get_free_slot picks its slot
allocate_small_slot(t, draw, random, info_fails, slab_fails) ==
    LET f == frame[t]
        r == allocate_small_pick(size_class_metadata[f.class], vm, f.class, f.size,
                                 draw, random, info_fails, slab_fails)
    IN /\ At(t, "allocate_small_slot")
       /\ size_class_metadata' = [size_class_metadata EXCEPT ![f.class] = r.c]
       /\ vm' = r.vm
       /\ CASE r.kind = "fatal" ->
                  /\ Fatal("no zero bits")
                  /\ UNCHANGED class_lock
            [] r.kind = "null" ->
                  /\ class_lock' = [class_lock EXCEPT ![f.class] = NoThread]
                  /\ AllocateReturns(t, NULL)
                  /\ UNCHANGED aborted
            [] OTHER ->
                  /\ Goto(t, "allocate_small_return",
                          [f EXCEPT !.metadata = r.metadata, !.slot = r.slot, !.path = r.path])
                  /\ UNCHANGED << class_lock, aborted, snap >>
       /\ UNCHANGED << region_vars, mem_body, mem_tail, live, workload_vars >>

\* allocate_small: set_slot, the write-after-free check, the canary,
\* mutex_unlock and the return of p
allocate_small_return(t) ==
    LET f == frame[t]
        r == allocate_small_commit(size_class_metadata[f.class], vm, mem_body, mem_tail,
                                   f.class, f.size, f.metadata, f.slot, f.path)
    IN /\ At(t, "allocate_small_return")
       /\ size_class_metadata' = [size_class_metadata EXCEPT ![f.class] = r.c]
       /\ mem_tail' = r.tail
       /\ IF r.fatal # ""
          THEN /\ Fatal(r.fatal)
               /\ UNCHANGED << class_lock, live >>
          ELSE /\ class_lock' = [class_lock EXCEPT ![f.class] = NoThread]
               /\ live' = BagAdd(live, r.p)
               /\ AllocateReturns(t, r.p)
               /\ UNCHANGED aborted
       /\ UNCHANGED << region_vars, vm, mem_body, workload_vars >>


\* how a build can behave when deallocate_small is given a pointer outside
\* the slab region: size_class_metadata is indexed out of bounds
OutOfBoundsOutcomes == {"SIGSEGV", "invalid free within a slab yet to be used", "returns"}

h_free(t, p, checked) ==
    LET f == [NoFrame EXCEPT !.op = "h_free", !.checked = checked, !.p = p]
    IN /\ IF p = NULL THEN EnterAndReturn(t, f, NULL)
          ELSE IF in_slab_region(p) THEN Enter(t, f, "deallocate_small_lock")
          ELSE Enter(t, f, "deallocate_large_lock")
       /\ UNCHANGED << slab_vars, region_vars, mem_vars, aborted, live, workload_vars >>

h_free_sized(t, p, expected_size, checked) ==
    LET small == free_sized_expected_small(expected_size)
        f == [NoFrame EXCEPT !.op = "h_free_sized", !.checked = checked, !.p = p,
                             !.n = expected_size,
                             !.expected = IF in_slab_region(p) THEN small
                                          ELSE free_sized_expected_large(expected_size)]
    IN /\ IF p = NULL
          THEN EnterAndReturn(t, f, NULL) /\ UNCHANGED aborted
          ELSE IF in_slab_region(p) /\ small = INVALID_SIZE_INFO.size
          THEN /\ Idle(t)
               /\ aborted' = "invalid size for slabs"
               /\ snap' = IF checked THEN Snapshot(f) ELSE NoSnap
               /\ UNCHANGED << pc, frame >>
          ELSE /\ Enter(t, f, IF in_slab_region(p) THEN "deallocate_small_lock"
                              ELSE "deallocate_large_lock")
               /\ UNCHANGED aborted
       /\ UNCHANGED << slab_vars, region_vars, mem_vars, live, workload_vars >>

\* deallocate_small up to mutex_lock(&c->lock)
deallocate_small_lock(t, outcome) ==
    LET f == frame[t]
        class == slab_size_class(f.p)
    IN /\ At(t, "deallocate_small_lock")
       /\ IF ~in_slab_region(f.p)
          THEN /\ IF outcome = "returns"
                  THEN DeallocateReturns(t) /\ UNCHANGED aborted
                  ELSE Fatal(outcome)
               /\ UNCHANGED class_lock
          ELSE IF f.expected >= 0 /\ class_size(class) # f.expected
          THEN /\ Fatal("sized deallocation mismatch")
               /\ UNCHANGED class_lock
          ELSE /\ mutex_lock(class_lock[class])
               /\ class_lock' = [class_lock EXCEPT ![class] = t]
               /\ Goto(t, "deallocate_small_unlock", [f EXCEPT !.class = class])
               /\ UNCHANGED << aborted, snap >>
       /\ UNCHANGED << size_class_metadata, region_vars, mem_vars, live, workload_vars >>

\* deallocate_small from get_metadata to mutex_unlock
deallocate_small_unlock(t, map_fixed_fails) ==
    LET f == frame[t]
        r == deallocate_small_body(size_class_metadata[f.class], vm, mem_body, mem_tail,
                                   f.class, f.p, map_fixed_fails)
    IN /\ At(t, "deallocate_small_unlock")
       /\ size_class_metadata' = [size_class_metadata EXCEPT ![f.class] = r.c]
       /\ vm' = r.vm
       /\ mem_body' = r.body
       /\ mem_tail' = r.tail
       /\ IF r.fatal # ""
          THEN /\ Fatal(r.fatal)
               /\ UNCHANGED << class_lock, live >>
          ELSE /\ class_lock' = [class_lock EXCEPT ![f.class] = NoThread]
               /\ live' = BagRemove(live, f.p)
               /\ DeallocateReturns(t)
               /\ UNCHANGED aborted
       /\ UNCHANGED << region_vars, workload_vars >>

\* the next class from `class` on whose round of h_malloc_trim's loop can
\* block or change something: its lock is held or its empty list is not
\* empty.  The rounds before it find the lock free and nothing to trim.
next_trim_class(scm, locks, class) ==
    LET busy == { k \in class .. (N_SIZE_CLASSES - 1) :
                     locks[k] # NoThread \/ scm[k].empty_slabs # NIL }
    IN IF busy = {} THEN N_SIZE_CLASSES
       ELSE CHOOSE k \in busy : \A j \in busy : k <= j

h_malloc_trim(t, checked) ==
    LET f == [NoFrame EXCEPT !.op = "h_malloc_trim", !.checked = checked,
                             !.class = next_trim_class(size_class_metadata, class_lock, 1)]
    IN /\ IF ~ro.initialized
          THEN EnterAndReturn(t, f, 0)
          ELSE Enter(t, f, "malloc_trim_class")
       /\ UNCHANGED << slab_vars, region_vars, mem_vars, aborted, live, workload_vars >>

\* one round of h_malloc_trim's loop: the class locked, its empty list
\* walked until memory_map_fixed fails after `moves` slabs, the class
\* unlocked; after the last round the call returns is_trimmed
malloc_trim_class(t, moves) ==
    LET f == frame[t]
        last == f.class >= N_SIZE_CLASSES
        c == size_class_metadata[f.class]
        r == trim_walk(c, vm, mem_body, mem_tail, f.class, moves)
        scm == [size_class_metadata EXCEPT ![f.class] = r.c]
        is_trimmed == f.is_trimmed \/ (moves > 0 /\ c.empty_slabs # NIL)
    IN /\ At(t, "malloc_trim_class")
       /\ IF last
          THEN /\ moves = 0
               /\ Return(t, IF f.is_trimmed THEN 1 ELSE 0)
               /\ UNCHANGED << size_class_metadata, mem_vars >>
          ELSE /\ mutex_lock(class_lock[f.class])
               /\ moves <= Len(empty_list(c, c.empty_slabs, c.metadata_allocated))
               /\ size_class_metadata' = scm
               /\ vm' = r.vm
               /\ mem_body' = r.body
               /\ mem_tail' = r.tail
               /\ Goto(t, "malloc_trim_class",
                       [f EXCEPT !.class = next_trim_class(scm, class_lock, f.class + 1),
                                 !.is_trimmed = is_trimmed])
               /\ UNCHANGED snap
       /\ UNCHANGED << class_lock, region_vars, aborted, live, workload_vars >>

\* how a build can behave when region->size is read through the NULL that
\* regions_find returned: the load traps, or the call goes on with whatever
\* value the build makes of it
NullReadOutcomes == {"SIGSEGV", "returns"}
NullReadValues == {0, SIZE_MAX}

\* h_malloc_usable_size, from its tests of p to the return of the size;
\* its test before region->size is of p, not of region
h_malloc_usable_size(t, p, outcome, value, checked) ==
    LET f == [NoFrame EXCEPT !.op = "h_malloc_usable_size", !.checked = checked, !.p = p]
        size == slab_usable_size(p)
        tab == ActiveTable(RegionState)
        region == regions_find(tab, regions_total, p)
    IN /\ Idle(t)
       /\ IF p = NULL
          THEN EnterAndReturn(t, f, 0) /\ UNCHANGED << aborted, regions_lock >>
          ELSE IF p >= ro.slab_region_start /\ p < ro.slab_region_end
          THEN /\ EnterAndReturn(t, f, IF size # 0 THEN size - canary_size ELSE 0)
               /\ UNCHANGED << aborted, regions_lock >>
          ELSE IF ~ro.initialized
          THEN /\ aborted' = "invalid uninitialized allocator usage"
               /\ snap' = IF checked THEN Snapshot(f) ELSE NoSnap
               /\ UNCHANGED << pc, frame, regions_lock >>
          ELSE /\ mutex_lock(regions_lock)
               /\ region # PROBE_LOOPS
               /\ IF region # NOT_FOUND
                  THEN /\ EnterAndReturn(t, f, tab[region].size)
                       /\ UNCHANGED << aborted, regions_lock >>
                  ELSE IF outcome = "SIGSEGV"
                  THEN /\ aborted' = "SIGSEGV"
                       /\ regions_lock' = t
                       /\ snap' = IF checked THEN Snapshot(f) ELSE NoSnap
                       /\ UNCHANGED << pc, frame >>
                  ELSE /\ EnterAndReturn(t, f, value)
                       /\ UNCHANGED << aborted, regions_lock >>
       /\ UNCHANGED << slab_vars, ro_regions, regions, regions_total, regions_free, mem_vars,
                       live, workload_vars >>

\* h_malloc_object_size: SIZE_MAX is for p = NULL, not for region = NULL
h_malloc_object_size(t, p, outcome, value, checked) ==
    LET f == [NoFrame EXCEPT !.op = "h_malloc_object_size", !.checked = checked, !.p = p]
        size == slab_usable_size(p)
        tab == ActiveTable(RegionState)
        region == regions_find(tab, regions_total, p)
    IN /\ Idle(t)
       /\ IF p = NULL
          THEN EnterAndReturn(t, f, 0) /\ UNCHANGED << aborted, regions_lock >>
          ELSE IF p >= ro.slab_region_start /\ p < ro.slab_region_end
          THEN /\ EnterAndReturn(t, f, IF size # 0 THEN size - canary_size ELSE 0)
               /\ UNCHANGED << aborted, regions_lock >>
          ELSE IF ~ro.initialized
          THEN EnterAndReturn(t, f, 0) /\ UNCHANGED << aborted, regions_lock >>
          ELSE /\ mutex_lock(regions_lock)
               /\ region # PROBE_LOOPS
               /\ IF region # NOT_FOUND
                  THEN /\ EnterAndReturn(t, f, tab[region].size)
                       /\ UNCHANGED << aborted, regions_lock >>
                  ELSE IF outcome = "SIGSEGV"
                  THEN /\ aborted' = "SIGSEGV"
                       /\ regions_lock' = t
                       /\ snap' = IF checked THEN Snapshot(f) ELSE NoSnap
                       /\ UNCHANGED << pc, frame >>
                  ELSE /\ EnterAndReturn(t, f, value)
                       /\ UNCHANGED << aborted, regions_lock >>
       /\ UNCHANGED << slab_vars, ro_regions, regions, regions_total, regions_free, mem_vars,
                       live, workload_vars >>

\* the program stores into the first bytes of the slot at p, or into its
\* last canary_size bytes
UserWrite(t, p, where) ==
    LET class == slab_size_class(p)
        size == class_object_size(class)
    IN /\ Idle(t)
       /\ class_size(class) # 0
       /\ vm_range_is(vm, p, p + size, "rw")
       /\ IF where = "canary"
          THEN /\ mem_tail' = tail_store(mem_tail, p, 1)
               /\ UNCHANGED mem_body
          ELSE /\ mem_body' = mem_body \cup {p}
               /\ UNCHANGED mem_tail
       /\ UNCHANGED << slab_vars, region_vars, vm, thread_vars, aborted, live, snap,
                       workload_vars >>

\* the program stores into the first bytes of a slot it has freed
WriteAfterFree(t, p) ==
    LET class == slab_size_class(p)
        size == class_object_size(class)
    IN /\ Idle(t)
       /\ ~IsLive(p)
       /\ class_size(class) # 0
       /\ vm_range_is(vm, p, p + size, "rw")
       /\ mem_body' = mem_body \cup {p}
       /\ dirtied' = dirtied \cup {p}
       /\ UNCHANGED << slab_vars, region_vars, vm, mem_tail, thread_vars, aborted, live,
                       snap, q, deletes, process_vars >>


\* ------------------------------------------------------------------------
\* Two threads on the slab engine
\* ------------------------------------------------------------------------
MaxLive == 5
SlabSizes == {16376}

\* allocations live or under way
InFlight == { t \in Threads : frame[t].op \in {"h_malloc", "h_calloc"} }
MayAllocate == BagCardinality(live) + Cardinality(InFlight) < MaxLive
\* a program frees a pointer once
BeingFreed == { frame[t].p : t \in Threads } \ {NULL}
Freeable == BagToSet(live) \ BeingFreed

\* the draws get_random_u16_uniform(rng, slots) can make for the thread's class
SlotDraws(t) ==
    IF pc[t] = "allocate_small_slot"
    THEN RandomUniform(Min(class_slots(frame[t].class), 64))
    ELSE {}

SlabNext ==
    \E t \in Threads :
        \/ \E n \in SlabSizes : MayAllocate /\ h_malloc(t, n, FALSE)
        \/ \E p \in Freeable : h_free(t, p, FALSE)
        \/ h_malloc_trim(t, FALSE)
        \/ allocate_small_lock(t)
        \/ \E draw \in SlotDraws(t),
              random \in {256 + 1}, info_fails \in BOOLEAN, slab_fails \in BOOLEAN :
              allocate_small_slot(t, draw, random, info_fails, slab_fails)
        \/ allocate_small_return(t)
        \/ deallocate_small_lock(t, "returns")
        \/ \E map_fixed_fails \in BOOLEAN : deallocate_small_unlock(t, map_fixed_fails)
        \/ \E moves \in 0 .. 2 : malloc_trim_class(t, moves)

SpecSlab == Init /\ [][SlabNext]_vars

\* C1: no slot is handed out twice while live: every address allocate_small
\* has returned and h_free has not yet taken back was returned once.
C1_NoSlotHandedOutTwice == \A p \in BagToSet(live) : CopiesIn(p, live) = 1

\* a thread has picked its slot and holds the class lock while another
\* thread waits for it and two allocations of the class are live
C1_ContendedAllocation ==
    \E t \in Threads, u \in Threads :
        /\ pc[t] = "allocate_small_return"
        /\ pc[u] = "allocate_small_lock"
        /\ class_lock[frame[t].class] = t
        /\ get_size_info(frame[u].size).class = frame[t].class
        /\ BagCardinality(live) >= 2


\* ------------------------------------------------------------------------
\* The large path: regions of pages between guards, kept in the region table
\* ------------------------------------------------------------------------
\* the places where a thread waits at mutex_lock(&regions_lock), and where it
\* is once it holds the lock
AfterRegionsLock ==
    [allocate_guard_lock |-> "allocate_guard",
     allocate_insert_lock |-> "allocate_insert",
     deallocate_large_lock |-> "deallocate_large_delete",
     realloc_find_lock |-> "realloc_find",
     realloc_shrink_lock |-> "realloc_shrink_size",
     realloc_remap_lock |-> "realloc_remap_delete"]

regions_mutex_lock(t) ==
    /\ aborted = ""
    /\ pc[t] \in DOMAIN AfterRegionsLock
    /\ mutex_lock(regions_lock)
    /\ regions_lock' = t
    /\ pc' = [pc EXCEPT ![t] = AfterRegionsLock[pc[t]]]
    /\ UNCHANGED << slab_vars, ro_regions, regions, regions_total, regions_free, mem_vars,
                    frame, aborted, live, snap, workload_vars >>

\* the addresses the kernel may place a new mapping's usable pages at
LargeBases == { 8192 * PAGE_SIZE, 16384 * PAGE_SIZE }

\* allocate / alloc_aligned: guard_size drawn under regions_lock
allocate_guard(t, draw) ==
    /\ At(t, "allocate_guard")
    /\ regions_lock' = NoThread
    /\ Goto(t, "allocate_pages", [frame[t] EXCEPT !.guard_size = get_guard_size(draw)])
    /\ UNCHANGED << slab_vars, ro_regions, regions, regions_total, regions_free, mem_vars,
                    aborted, live, snap, workload_vars >>

\* allocate_pages / allocate_pages_aligned: usable = NULL is the failure
allocate_pages_call(t, usable) ==
    LET f == frame[t]
    IN /\ At(t, "allocate_pages")
       /\ IF usable = NULL
          THEN /\ AllocateReturns(t, NULL)
               /\ UNCHANGED vm
          ELSE /\ pages_fit(vm, usable, f.size, f.guard_size)
               /\ f.alignment > PAGE_SIZE => usable % f.alignment = 0
               /\ vm' = allocate_pages(vm, usable, f.size, f.guard_size)
               /\ Goto(t, "allocate_insert_lock", [f EXCEPT !.new = usable])
               /\ UNCHANGED snap
       /\ UNCHANGED << slab_vars, region_vars, mem_body, mem_tail, aborted, live,
                       workload_vars >>

\* regions_insert under regions_lock, and deallocate_pages when it fails
allocate_insert(t, protect_fails, map_fixed_fails) ==
    LET f == frame[t]
        r == regions_insert(RegionState, f.new, f.size, f.guard_size,
                            protect_fails, map_fixed_fails)
    IN /\ At(t, "allocate_insert")
       /\ ~r.hangs
       /\ ro_regions' = r.rs.ro_regions
       /\ regions' = r.rs.regions
       /\ regions_total' = r.rs.total
       /\ regions_free' = r.rs.free
       /\ regions_lock' = NoThread
       /\ IF r.ok
          THEN /\ live' = BagAdd(live, f.new)
               /\ AllocateReturns(t, f.new)
               /\ UNCHANGED vm
          ELSE /\ vm' = deallocate_pages(vm, f.new, f.size, f.guard_size)
               /\ AllocateReturns(t, NULL)
               /\ UNCHANGED live
       /\ UNCHANGED << slab_vars, mem_body, mem_tail, aborted, workload_vars >>

\* deallocate_large: regions_find, the size check and regions_delete
deallocate_large_delete(t) ==
    LET f == frame[t]
        tab == ActiveTable(RegionState)
        region == regions_find(tab, regions_total, f.p)
    IN /\ At(t, "deallocate_large_delete")
       /\ region # PROBE_LOOPS
       /\ IF region = NOT_FOUND
          THEN /\ Fatal("invalid free")
               /\ UNCHANGED << region_vars, live >>
          ELSE IF f.expected >= 0 /\ tab[region].size # f.expected
          THEN /\ Fatal("sized deallocation mismatch")
               /\ UNCHANGED << region_vars, live >>
          ELSE /\ ro_regions' = [ro_regions EXCEPT
                                    ![regions] = regions_delete(@, regions_total, region)]
               /\ regions_free' = regions_free + 1
               /\ regions_lock' = NoThread
               /\ live' = BagRemove(live, f.p)
               /\ Goto(t, "deallocate_large_pages",
                       [f EXCEPT !.old_size = tab[region].size,
                                 !.old_guard_size = tab[region].guard_size])
               /\ UNCHANGED << regions, regions_total, aborted, snap >>
       /\ UNCHANGED << slab_vars, mem_vars, workload_vars >>

\* deallocate_large: deallocate_pages(p, size, guard_size)
deallocate_large_pages(t) ==
    LET f == frame[t]
    IN /\ At(t, "deallocate_large_pages")
       /\ vm' = deallocate_pages(vm, f.p, f.old_size, f.old_guard_size)
       /\ DeallocateReturns(t)
       /\ UNCHANGED << slab_vars, region_vars, mem_body, mem_tail, aborted, live,
                       workload_vars >>

\* alloc_aligned behind h_posix_memalign (min_alignment = sizeof(void *)),
\* h_aligned_alloc, h_memalign, h_valloc and h_pvalloc (min_alignment = 1)
alloc_aligned(t, op, alignment, n, size, min_alignment, checked) ==
    LET f == [NoFrame EXCEPT !.op = op, !.checked = checked, !.n = n,
                             !.alignment = alignment]
        class_fit == IF size <= max_slab_size_class /\ alignment > min_align
                     THEN get_size_info_align(size, alignment).size
                     ELSE size
    IN /\ IF ~IsPowerOfTwoOrZero(alignment) \/ alignment < min_alignment
          THEN EnterAndReturn(t, f, NULL)
          ELSE IF alignment <= PAGE_SIZE
          THEN Enter(t, [f EXCEPT !.size = class_fit], allocate_entry(class_fit))
          ELSE Enter(t, [f EXCEPT !.size = size], "allocate_guard_lock")
       /\ UNCHANGED << slab_vars, region_vars, mem_vars, aborted, live, workload_vars >>

h_posix_memalign(t, alignment, n, checked) ==
    alloc_aligned(t, "h_posix_memalign", alignment, n, adjust_size_for_canaries(n), 8, checked)

h_aligned_alloc(t, alignment, n, checked) ==
    alloc_aligned(t, "h_aligned_alloc", alignment, n, adjust_size_for_canaries(n), 1, checked)

h_valloc(t, n, checked) ==
    alloc_aligned(t, "h_valloc", PAGE_SIZE, n, adjust_size_for_canaries(n), 1, checked)

h_pvalloc(t, n, checked) ==
    IF PAGE_CEILING(n) = 0
    THEN /\ EnterAndReturn(t, [NoFrame EXCEPT !.op = "h_pvalloc", !.checked = checked,
                                              !.n = n], NULL)
         /\ UNCHANGED << slab_vars, region_vars, mem_vars, aborted, live, workload_vars >>
    ELSE alloc_aligned(t, "h_pvalloc", PAGE_SIZE, n, PAGE_CEILING(n), 1, checked)


\* ------------------------------------------------------------------------
\* h_realloc
\* ------------------------------------------------------------------------
h_realloc(t, old, n, checked) ==
    LET size == adjust_size_for_canaries(n)
        f == [NoFrame EXCEPT !.op = "h_realloc", !.checked = checked, !.p = old, !.n = n,
                             !.size = size]
        old_size == slab_usable_size(old)
    IN /\ IF old = NULL THEN Enter(t, f, allocate_entry(size))
          ELSE IF in_slab_region(old)
          THEN IF realloc_same_class(size, old_size)
               THEN EnterAndReturn(t, f, old)
               ELSE Enter(t, [f EXCEPT !.old_size = old_size, !.mode = "copy"],
                          allocate_entry(size))
          ELSE Enter(t, f, "realloc_find_lock")
       /\ UNCHANGED << slab_vars, region_vars, mem_vars, aborted, live, workload_vars >>

\* h_realloc of a pointer outside the slab region: regions_find under
\* regions_lock, the in-place update, and the choice of the path after it
realloc_find(t) ==
    LET f == frame[t]
        tab == ActiveTable(RegionState)
        region == regions_find(tab, regions_total, f.p)
        old_size == tab[region].size
        g == [f EXCEPT !.old_size = old_size, !.old_guard_size = tab[region].guard_size]
    IN /\ At(t, "realloc_find")
       /\ region # PROBE_LOOPS
       /\ IF region = NOT_FOUND
          THEN /\ Fatal("invalid realloc")
               /\ UNCHANGED << ro_regions, regions_lock >>
          ELSE IF realloc_in_place(f.size, old_size)
          THEN /\ ro_regions' = [ro_regions EXCEPT ![regions][region].size = f.size]
               /\ regions_lock' = NoThread
               /\ Return(t, f.p)
               /\ UNCHANGED aborted
          ELSE /\ regions_lock' = NoThread
               /\ IF realloc_shrink(f.size, old_size)
                  THEN Goto(t, "realloc_shrink_map", g)
                  ELSE IF realloc_remap(f.size, old_size)
                  THEN Goto(t, allocate_entry(f.size), [g EXCEPT !.mode = "remap"])
                  ELSE Goto(t, allocate_entry(f.size), [g EXCEPT !.mode = "copy"])
               /\ UNCHANGED << ro_regions, aborted, snap >>
       /\ UNCHANGED << slab_vars, regions, regions_total, regions_free, mem_vars, live,
                       workload_vars >>

shrink_pages_mut_unmap_from_new_end(v, old, size, old_size, old_guard_size) ==
    LET rounded_size == PAGE_CEILING(size)
        old_rounded_size == PAGE_CEILING(old_size)
        new_end == old + rounded_size
    IN memory_unmap(memory_map_fixed(v, new_end, old_guard_size),
                    new_end, old_rounded_size - rounded_size)

\* the in-place shrink: memory_map_fixed(new_end, old_guard_size), then
\* memory_unmap(new_guard_end, old_rounded_size - rounded_size)
shrink_pages(v, old, size, old_size, old_guard_size) ==
    LET rounded_size == PAGE_CEILING(size)
        old_rounded_size == PAGE_CEILING(old_size)
        new_end == old + rounded_size
        new_guard_end == new_end + old_guard_size
    IN memory_unmap(memory_map_fixed(v, new_end, old_guard_size),
                    new_guard_end, old_rounded_size - rounded_size)

realloc_shrink_map(t, map_fixed_fails) ==
    LET f == frame[t]
    IN /\ At(t, "realloc_shrink_map")
       /\ IF map_fixed_fails
          THEN /\ Return(t, NULL)
               /\ UNCHANGED vm
          ELSE /\ vm' = shrink_pages(vm, f.p, f.size, f.old_size, f.old_guard_size)
               /\ Goto(t, "realloc_shrink_lock", f)
               /\ UNCHANGED snap
       /\ UNCHANGED << slab_vars, region_vars, mem_body, mem_tail, aborted, live,
                       workload_vars >>

\* the in-place shrink: region->size = size under regions_lock
realloc_shrink_size(t) ==
    LET f == frame[t]
        region == regions_find(ActiveTable(RegionState), regions_total, f.p)
    IN /\ At(t, "realloc_shrink_size")
       /\ region # PROBE_LOOPS
       /\ IF region = NOT_FOUND
          THEN /\ Fatal("invalid realloc")
               /\ UNCHANGED << ro_regions, regions_lock >>
          ELSE /\ ro_regions' = [ro_regions EXCEPT ![regions][region].size = f.size]
               /\ regions_lock' = NoThread
               /\ Return(t, f.p)
               /\ UNCHANGED aborted
       /\ UNCHANGED << slab_vars, regions, regions_total, regions_free, mem_vars, live,
                       workload_vars >>

\* the mremap path: the old entry deleted under regions_lock
realloc_remap_delete(t) ==
    LET f == frame[t]
        region == regions_find(ActiveTable(RegionState), regions_total, f.p)
    IN /\ At(t, "realloc_remap_delete")
       /\ region # PROBE_LOOPS
       /\ IF region = NOT_FOUND
          THEN /\ Fatal("invalid realloc")
               /\ UNCHANGED << region_vars, live >>
          ELSE /\ ro_regions' = [ro_regions EXCEPT
                                    ![regions] = regions_delete(@, regions_total, region)]
               /\ regions_free' = regions_free + 1
               /\ regions_lock' = NoThread
               /\ live' = BagRemove(live, f.p)
               /\ Goto(t, "realloc_remap_move", f)
               /\ UNCHANGED << regions, regions_total, aborted, snap >>
       /\ UNCHANGED << slab_vars, mem_vars, workload_vars >>

\* the mremap path: memory_remap_fixed, and what follows its success or failure
realloc_remap_move(t, remap_fails) ==
    LET f == frame[t]
        moved == memory_remap_fixed(vm, f.p, f.old_size, f.new, f.size)
    IN /\ At(t, "realloc_remap_move")
       /\ vm' = IF remap_fails
                THEN deallocate_pages(vm, f.p, f.old_size, f.old_guard_size)
                ELSE memory_unmap(
                         memory_unmap(moved, f.p - f.old_guard_size, f.old_guard_size),
                         f.p + PAGE_CEILING(f.old_size), f.old_guard_size)
       /\ Return(t, f.new)
       /\ UNCHANGED << slab_vars, region_vars, mem_body, mem_tail, aborted, live,
                       workload_vars >>

\* memcpy(new, old, copy_size) can run when it has nothing to copy or both
\* ranges are readable and writable
memcpy_runs(v, new, old, copy_size) ==
    \/ copy_size = 0
    \/ /\ vm_range_is(v, old, old + copy_size, "rw")
       /\ vm_range_is(v, new, new + copy_size, "rw")

\* the general path after allocate: memcpy, then the old block handed to the
\* backend its recorded size selects
realloc_copy(t) ==
    LET f == frame[t]
        copy_size == realloc_copy_size(f.size, f.old_size)
    IN /\ At(t, "realloc_copy")
       /\ IF ~memcpy_runs(vm, f.new, f.p, copy_size)
          THEN /\ aborted' = "SIGSEGV"
               /\ UNCHANGED << pc, frame, mem_body >>
          ELSE /\ Goto(t, IF realloc_free_backend(f.old_size) = "small"
                          THEN "deallocate_small_lock" ELSE "deallocate_large_lock",
                       f)
               /\ mem_body' = IF f.p \in mem_body /\ in_slab_region(f.new)
                              THEN mem_body \cup {f.new} ELSE mem_body
               /\ UNCHANGED aborted
       /\ snap' = IF f.checked THEN [snap EXCEPT !.copy_size = copy_size] ELSE snap
       /\ UNCHANGED << slab_vars, region_vars, vm, mem_tail, live, workload_vars >>


\* ------------------------------------------------------------------------
\* One thread freeing pointers into the slab region
\* ------------------------------------------------------------------------
ProbeClasses == {0, 3}
FreeSizes == {0, 40}
MaxLiveProbe == 3

\* addresses of every kind h_free can be given inside a class's share of the
\* slab region: the gap before class_region_start, slot boundaries of used,
\* guard and unused slabs, an address inside a slot, a slot index of 64,
\* and the first address past the class's usable range
ProbePointers ==
    UNION { LET size == class_object_size(class)
                slab_size == class_slab_size(class)
                slabs == { get_slab(class, slab_size, index) : index \in 0 .. 3 }
            IN { slab_region_start + real_class_region_size * class,
                 class_region_start(class) + class_region_size }
               \cup { slot_pointer(size, slab, slot) : slab \in slabs, slot \in {0, 1} }
               \cup { slot_pointer(size, slab, 0) + 8 : slab \in slabs }
               \cup { slot_pointer(size, slab, slot) :
                          slab \in slabs, slot \in { k \in {63, 64} : k * size < slab_size } }
          : class \in ProbeClasses }

FreeNext ==
    \/ \E n \in FreeSizes : BagCardinality(live) < MaxLiveProbe /\ h_malloc(1, n, FALSE)
    \/ \E p \in BagToSet(live) : h_free(1, p, FALSE)
    \/ \E p \in (ProbePointers \ BagToSet(live)) : h_free(1, p, TRUE)
    \/ \E p \in BagToSet(live) : UserWrite(1, p, "body")
    \/ h_malloc_trim(1, FALSE)
    \/ allocate_small_lock(1)
    \/ \E draw \in SlotDraws(1) : allocate_small_slot(1, draw, 256 + 1, FALSE, FALSE)
    \/ allocate_small_return(1)
    \/ deallocate_small_lock(1, "returns")
    \/ \E map_fixed_fails \in BOOLEAN : deallocate_small_unlock(1, map_fixed_fails)
    \/ \E moves \in 0 .. 1 : malloc_trim_class(1, moves)

SpecFree == Init /\ [][FreeNext]_vars

\* the last call is h_free of a pointer inside the slab region that was not
\* the address of a live allocation
BadSlabFree ==
    /\ snap.taken
    /\ snap.op = "h_free"
    /\ in_slab_region(snap.p)
    /\ ~snap.was_live

\* C2: h_free(p) for p inside the slab region that is not the base address
\* of a live small allocation never returns, and from the call to the
\* fatal_error that ends it no class state and no user memory changes.
C2_BadSlabFreeIsFatalBeforeAnyWrite ==
    BadSlabFree =>
        /\ ~snap.done
        /\ size_class_metadata = snap.size_class_metadata
        /\ mem_body = snap.mem_body
        /\ mem_tail = snap.mem_tail
        /\ vm = snap.vm
        /\ pc[1] \in {"deallocate_small_lock", "deallocate_small_unlock"}

\* a second h_free of a freed slot whose neighbour is live and written has
\* ended in "double free"
C2_DoubleFreeCaught ==
    /\ BadSlabFree
    /\ aborted = "double free"
    /\ mem_body # {}


\* ------------------------------------------------------------------------
\* One thread on both backends: allocation, h_realloc and h_free across the
\* slab engine and the large path
\* ------------------------------------------------------------------------
MaxLiveLarge == 2
MallocSizes == {16, 40000, mremap_threshold}
MemalignSizes == {100}
ReallocSizes == {16, 4090, 30000, mremap_threshold + 2 * PAGE_SIZE}

\* the draws get_random_u64_uniform(&regions_rng, size / PAGE_SIZE / 8) can make
GuardDraws(t) ==
    IF pc[t] = "allocate_guard" THEN RandomUniform(guard_draw_bound(frame[t].size)) ELSE {}

LargeNext ==
    \/ \E n \in MallocSizes : BagCardinality(live) < MaxLiveLarge /\ h_malloc(1, n, FALSE)
    \/ \E n \in MemalignSizes :
          BagCardinality(live) < MaxLiveLarge /\ h_posix_memalign(1, 2 * PAGE_SIZE, n, FALSE)
    \/ BagCardinality(live) < MaxLiveLarge /\ h_realloc(1, NULL, 16, TRUE)
    \/ \E p \in BagToSet(live), n \in ReallocSizes :
          BagCardinality(live) <= MaxLiveLarge /\ h_realloc(1, p, n, TRUE)
    \/ \E p \in BagToSet(live) : h_free(1, p, FALSE)
    \/ allocate_small_lock(1)
    \/ \E slab_fails \in BOOLEAN : allocate_small_slot(1, 0, 256 + 1, FALSE, slab_fails)
    \/ allocate_small_return(1)
    \/ \E outcome \in OutOfBoundsOutcomes : deallocate_small_lock(1, outcome)
    \/ deallocate_small_unlock(1, FALSE)
    \/ regions_mutex_lock(1)
    \/ \E draw \in GuardDraws(1) : allocate_guard(1, draw)
    \/ \E usable \in LargeBases \cup {NULL} : allocate_pages_call(1, usable)
    \/ \E protect_fails \in BOOLEAN : allocate_insert(1, protect_fails, FALSE)
    \/ deallocate_large_delete(1)
    \/ deallocate_large_pages(1)
    \/ realloc_find(1)
    \/ \E map_fixed_fails \in BOOLEAN : realloc_shrink_map(1, map_fixed_fails)
    \/ realloc_shrink_size(1)
    \/ realloc_remap_delete(1)
    \/ \E remap_fails \in BOOLEAN : realloc_remap_move(1, remap_fails)
    \/ realloc_copy(1)

SpecLarge == Init /\ [][LargeNext]_vars

\* C7: the backend is selected by the pointer's location: deallocate_small
\* only ever runs on a pointer inside the slab region and deallocate_large
\* only on a pointer outside it, the final free of h_realloc included.
C7_BackendByPointerLocation ==
    \A t \in Threads :
        /\ pc[t] \in {"deallocate_small_lock", "deallocate_small_unlock"}
              => in_slab_region(frame[t].p)
        /\ pc[t] \in {"deallocate_large_lock", "deallocate_large_delete",
                      "deallocate_large_pages"}
              => ~in_slab_region(frame[t].p)

\* h_realloc is about to free a region-table pointer through deallocate_small
C7_RegionPointerGivenToSlabEngine ==
    \E t \in Threads :
        /\ pc[t] = "deallocate_small_lock"
        /\ frame[t].op = "h_realloc"
        /\ ~in_slab_region(frame[t].p)
        /\ snap.was_live

\* the entry of p in a region table, NullRegion when it has none
EntryOf(tab, total, p) ==
    LET region == regions_find(tab, total, p)
    IN IF region >= 0 THEN tab[region] ELSE NullRegion

LiveRealloc == snap.taken /\ snap.op = "h_realloc" /\ snap.was_live

\* the slab half of C9, shared by the claim as stated and as amended:
\* h_realloc of a live slab pointer returns it in its first step, nothing
\* changed, exactly when the class of the canary-adjusted n is the class of p
ReallocSlabInPlace ==
    LiveRealloc /\ in_slab_region(snap.p) =>
        LET same == get_size_info(adjust_size_for_canaries(snap.n)).class
                        = slab_size_class(snap.p)
        IN /\ same => /\ snap.done /\ snap.ret = snap.p
                      /\ size_class_metadata = snap.size_class_metadata
                      /\ ActiveTable(RegionState) = snap.table
                      /\ class_lock = [class \in AllClasses |-> NoThread]
                      /\ regions_lock = NoThread
           /\ ~same /\ snap.done => snap.ret # snap.p

\* h_realloc(p, n) of a live large pointer whose recorded size and `size`
\* round up to the same number of pages returns p, and changes only the
\* entry's size field, to `size`
ReallocLargeInPlace(size) ==
    LiveRealloc /\ ~in_slab_region(snap.p)
        /\ PAGE_CEILING(EntryOf(snap.table, regions_total, snap.p).size) = PAGE_CEILING(size) =>
        /\ pc[1] \in {"idle", "realloc_find_lock", "realloc_find"}
        /\ snap.done =>
              /\ snap.ret = snap.p
              /\ ActiveTable(RegionState) =
                    [i \in DOMAIN snap.table |->
                        IF snap.table[i].p = snap.p
                        THEN [snap.table[i] EXCEPT !.size = size]
                        ELSE snap.table[i]]
              /\ size_class_metadata = snap.size_class_metadata
              /\ vm = snap.vm

\* C9 as stated: the large half compares the recorded size with n and sets
\* the size field to n.
C9_ReallocInPlaceRawSize == ReallocSlabInPlace /\ ReallocLargeInPlace(snap.n)

\* C9: h_realloc(p, n) on a live slab pointer returns p, nothing locked or
\* changed, exactly when the class of the canary-adjusted n is the class of
\* p; on a live large pointer whose recorded size and the canary-adjusted n
\* round up to the same number of pages it returns p and changes only that
\* entry's size field, to the canary-adjusted n.
C9_ReallocInPlaceAdjustedSize ==
    ReallocSlabInPlace /\ ReallocLargeInPlace(adjust_size_for_canaries(snap.n))

\* an in-place h_realloc of a large pointer has changed the entry's size
C9_LargeEntryResized ==
    /\ LiveRealloc
    /\ ~in_slab_region(snap.p)
    /\ snap.done
    /\ snap.ret = snap.p
    /\ PAGE_CEILING(EntryOf(snap.table, regions_total, snap.p).size)
          = PAGE_CEILING(adjust_size_for_canaries(snap.n))
    /\ ActiveTable(RegionState) # snap.table

\* the bytes of the mappings outside the slab region
Quiescent == aborted = "" /\ \A t \in Threads : pc[t] = "idle"

\* C10: between calls, every entry (p, n, g) of the region table has
\* inaccessible guards [p - g, p) and [p + page_ceil(n), p + page_ceil(n) + g)
\* around accessible pages [p, p + page_ceil(n)), and nothing outside the
\* slab region is mapped that is not one of these ranges.
C10_GuardsAroundEveryRegion ==
    Quiescent =>
        LET tab == ActiveTable(RegionState)
            entries == { tab[i] : i \in { k \in 0 .. (regions_total - 1) : tab[k].p # NULL } }
            end(e) == e.p + PAGE_CEILING(e.size)
        IN /\ \A e \in entries :
                 /\ vm_range_is(vm, e.p - e.guard_size, e.p, "none")
                 /\ vm_range_is(vm, e.p, end(e), "rw")
                 /\ vm_range_is(vm, end(e), end(e) + e.guard_size, "none")
           /\ \A s \in vm :
                 \/ (s.lo >= slab_region_start /\ s.hi <= slab_region_end)
                 \/ \E e \in entries :
                       s.lo >= e.p - e.guard_size /\ s.hi <= end(e) + e.guard_size

\* an in-place shrink has given pages back
C10_ShrunkInPlace ==
    /\ Quiescent
    /\ LiveRealloc
    /\ snap.done
    /\ snap.ret = snap.p
    /\ ~in_slab_region(snap.p)
    /\ PAGE_CEILING(EntryOf(ActiveTable(RegionState), regions_total, snap.p).size)
          < PAGE_CEILING(EntryOf(snap.table, regions_total, snap.p).size)


\* ------------------------------------------------------------------------
\* The slabs of a class: bitmaps, lists and the allocations they hold
\* ------------------------------------------------------------------------
\* the metadata entries alloc_metadata has handed out: with GUARD_SLABS every
\* second entry stands for a guard slab and is never used
HandedOut(c) ==
    { i \in 0 .. (c.metadata_count - 1) : ~GUARD_SLABS \/ i % 2 = 0 }

\* the live allocations located in slab `metadata` of a class
LiveIn(class, metadata) ==
    { p \in BagToSet(live) :
         /\ in_slab_region(p)
         /\ slab_size_class(p) = class
         /\ p >= get_slab(class, class_slab_size(class), metadata)
         /\ p < get_slab(class, class_slab_size(class), metadata + 1) }

\* the three lists of a class, as the sequences of entries met following next
partial_list(c) == empty_list(c, c.partial_slabs, c.metadata_allocated + 1)
empty_slabs_list(c) == empty_list(c, c.empty_slabs, c.metadata_allocated + 1)
free_list(c) == empty_list(c, c.free_slabs_head, c.metadata_allocated + 1)
Range(s) == { s[k] : k \in DOMAIN s }
NoRepeat(s) == \A j, k \in DOMAIN s : j # k => s[j] # s[k]

\* C12: the canary_value of every slab has its low byte 0 (little-endian),
\* whether the slab was created through alloc_metadata or taken back from
\* the free list.
C12_CanaryLowByteZero ==
    \A class \in AllClasses :
        \A i \in DOMAIN size_class_metadata[class].slab_info :
            size_class_metadata[class].slab_info[i].canary_value % canary_mask_low_byte = 0

\* a slab taken back from the free list holds a live allocation
C12_FreeSlabReused ==
    \E t \in Threads :
        /\ pc[t] = "allocate_small_return"
        /\ frame[t].path = "free"

\* C13: for every slab the number of set bits of its bitmap is the number
\* of live allocations located in it, every set bit is below
\* min(slots(class), 64), and a slab in the empty or the free list has
\* bitmap = 0.
C13_BitmapCountsLive ==
    \A class \in AllClasses :
        LET c == size_class_metadata[class]
        IN /\ \A i \in DOMAIN c.slab_info :
                 /\ Cardinality(c.slab_info[i].bitmap) = Cardinality(LiveIn(class, i))
                 /\ \A b \in c.slab_info[i].bitmap : b < Min(class_slots(class), 64)
           /\ \A i \in Range(empty_slabs_list(c)) \cup Range(free_list(c)) :
                 c.slab_info[i].bitmap = {}

\* one slab of the class is in the free list while another holds two or
\* more live allocations
C13_PurgedBesideUsed ==
    LET c == size_class_metadata[N_SIZE_CLASSES - 1]
    IN /\ c.free_slabs_head # NIL
       /\ \E i \in HandedOut(c) : Cardinality(c.slab_info[i].bitmap) >= 2

\* C20: while the class lock is not held, every slab handed out is in
\* exactly one place: the partial list iff it has an allocated and a free
\* slot, the empty or the free list only if its bitmap is 0, no list iff it
\* is full; no slab is in two lists or twice in one, and the partial list
\* is a well-formed doubly-linked list.
C20_SlabInExactlyOnePlace ==
    \A class \in AllClasses :
        class_lock[class] = NoThread =>
            LET c == size_class_metadata[class]
                partial == partial_list(c)
                empty == empty_slabs_list(c)
                free == free_list(c)
                all == partial \o empty \o free
                full(i) == c.slab_info[i].bitmap = 0 .. (Min(class_slots(class), 64) - 1)
                unused(i) == c.slab_info[i].bitmap = {}
            IN /\ NoRepeat(all)
               /\ Range(all) \subseteq HandedOut(c)
               /\ \A i \in HandedOut(c) :
                     /\ i \in Range(partial) <=> (~unused(i) /\ ~full(i))
                     /\ i \in Range(empty) \cup Range(free) <=> unused(i)
                     /\ i \notin Range(all) <=> full(i)
               /\ c.partial_slabs # NIL => c.slab_info[c.partial_slabs].prev = NIL
               /\ \A k \in 1 .. (Len(partial) - 1) :
                     c.slab_info[partial[k + 1]].prev = partial[k]

\* the partial list holds two slabs and the class lock is free
C20_TwoPartialSlabs ==
    /\ class_lock[N_SIZE_CLASSES - 1] = NoThread
    /\ Len(partial_list(size_class_metadata[N_SIZE_CLASSES - 1])) >= 2


\* ------------------------------------------------------------------------
\* One thread and the bytes of its slots: the program writes into the slots
\* it holds, over their canaries, and into slots it has freed
\* ------------------------------------------------------------------------
MaxLiveBytes == 4
MaxDirtied == 1

\* slots whose last 8 bytes hold what the program stored there
Overwritten == { p \in DOMAIN mem_tail : mem_tail[p] = 1 }

\* the slots of the slabs of a class that have been handed out
SlotsOf(class) ==
    LET c == size_class_metadata[class]
        size == class_object_size(class)
        slab_size == class_slab_size(class)
    IN { slot_pointer(size, get_slab(class, slab_size, i), k) :
             i \in HandedOut(c), k \in 0 .. (class_slots(class) - 1) }

BytesNext ==
    \/ \E n \in SlabSizes : BagCardinality(live) < MaxLiveBytes /\ h_malloc(1, n, FALSE)
    \/ \E n \in SlabSizes : BagCardinality(live) < MaxLiveBytes /\ h_calloc(1, 1, n, FALSE)
    \/ \E p \in BagToSet(live) : h_free(1, p, FALSE)
    \/ h_malloc_trim(1, FALSE)
    \/ \E p \in BagToSet(live) :
          Cardinality(mem_body) < MaxDirtied /\ UserWrite(1, p, "body")
    \/ \E p \in BagToSet(live) :
          Cardinality(Overwritten) < MaxDirtied /\ UserWrite(1, p, "canary")
    \/ \E p \in SlotsOf(N_SIZE_CLASSES - 1) :
          Cardinality(dirtied) < MaxDirtied /\ WriteAfterFree(1, p)
    \/ allocate_small_lock(1)
    \/ \E draw \in SlotDraws(1) : allocate_small_slot(1, draw, 256 + 1, FALSE, FALSE)
    \/ allocate_small_return(1)
    \/ deallocate_small_lock(1, "returns")
    \/ deallocate_small_unlock(1, FALSE)
    \/ \E moves \in 0 .. 1 : malloc_trim_class(1, moves)

SpecBytes == Init /\ [][BytesNext]_vars

\* the canary_value of the slab that holds the slot at p
canary_of(p) ==
    LET class == slab_size_class(p)
        c == size_class_metadata[class]
    IN c.slab_info[get_metadata(c, class, class_slab_size(class), p)].canary_value

\* live allocations of a class that has a canary
LiveWithCanary ==
    { p \in BagToSet(live) : in_slab_region(p) /\ class_size(slab_size_class(p)) # 0 }

\* the slot a thread in allocate_small has picked
picked_slot(t) ==
    slot_pointer(class_object_size(frame[t].class),
                 get_slab(frame[t].class, class_slab_size(frame[t].class), frame[t].metadata),
                 frame[t].slot)

\* C11: the last 8 bytes of every live nonzero small allocation hold its
\* slab's current canary_value unless the caller stored into them (the
\* caller's stores put 1 there), whichever lists the slab has been through;
\* the process ends with "canary corrupted" only in an h_free of a slot whose
\* last 8 bytes the caller changed, and an h_free of such a slot never returns.
C11_CanaryIntactUnlessWritten ==
    /\ [](/\ \A p \in LiveWithCanary : tail_of(mem_tail, p) \in {canary_of(p), 1}
          /\ aborted = "canary corrupted" =>
                 \E t \in Threads : /\ pc[t] = "deallocate_small_unlock"
                                    /\ tail_of(mem_tail, frame[t].p) = 1)
    /\ [][\A t \in Threads :
              (/\ pc[t] = "deallocate_small_unlock"
               /\ frame[t].p \in LiveWithCanary
               /\ tail_of(mem_tail, frame[t].p) = 1) => pc'[t] = pc[t]]_vars

\* h_free has ended the process over a changed canary in a slab that was
\* retaken from the free list, where canary_value was drawn again
C11_CorruptionCaughtAfterRedraw ==
    /\ aborted = "canary corrupted"
    /\ \E t \in Threads :
          /\ pc[t] = "deallocate_small_unlock"
          /\ canary_of(frame[t].p) # canary_masked(canary_of(frame[t].p))

\* C18: with ZERO_ON_FREE, every nonzero small allocation that succeeds
\* returns a slot whose user bytes are all zero, whichever list its slab came
\* from and whether h_malloc or h_calloc asked; a slot picked from a partial
\* or empty slab with a nonzero user byte is never returned, and the process
\* ends with "detected write after free" only over such a slot that the
\* program stored into after freeing it.
C18_ZeroedWhenHandedOut ==
    /\ [](aborted = "detected write after free" =>
              \E t \in Threads : /\ pc[t] = "allocate_small_return"
                                 /\ frame[t].path \in {"partial", "empty"}
                                 /\ picked_slot(t) \in mem_body
                                 /\ picked_slot(t) \in dirtied)
    /\ [][/\ \A p \in BagToSet(live') \ BagToSet(live) :
                 (in_slab_region(p) /\ class_size(slab_size_class(p)) # 0) =>
                     p \notin mem_body'
          /\ \A t \in Threads :
                 (/\ pc[t] = "allocate_small_return"
                  /\ frame[t].size # 0
                  /\ frame[t].path \in {"partial", "empty"}
                  /\ picked_slot(t) \in mem_body) => pc'[t] = pc[t]]_vars

\* h_calloc has picked a slot of an empty slab that the program stored into
\* after freeing it, and the process has ended
C18_CallocFindsWriteAfterFree ==
    /\ aborted = "detected write after free"
    /\ \E t \in Threads : /\ frame[t].op = "h_calloc"
                          /\ frame[t].path = "empty"
                          /\ picked_slot(t) \in dirtied


\* C14: between calls, the keys of the region table are the pointers outside
\* the slab region that have been handed out and not given back, no live slab
\* pointer is a key, and regions_free is regions_total minus the number of
\* occupied slots; once h_realloc has returned another pointer than the one
\* it was given, the old pointer has no entry; and the entry of a pointer
\* h_realloc has returned for a request above max_slab_size_class (where no
\* canary is added to the request) records the size asked for.
C14_TableHoldsLiveLargePointers ==
    Quiescent =>
        LET tab == ActiveTable(RegionState)
            occupied == { i \in 0 .. (regions_total - 1) : tab[i].p # NULL }
            moved == /\ snap.done /\ snap.op = "h_realloc" /\ snap.was_live
                     /\ snap.ret \notin {NULL, snap.p}
            released == IF moved THEN {snap.p} ELSE {}
        IN /\ TableKeys = { p \in BagToSet(live) : ~in_slab_region(p) } \ released
           /\ \A p \in BagToSet(live) : in_slab_region(p) => p \notin TableKeys
           /\ regions_free = regions_total - Cardinality(occupied)
           /\ (snap.done /\ snap.op = "h_realloc" /\ snap.ret # NULL
                  /\ ~in_slab_region(snap.ret) /\ snap.n > max_slab_size_class) =>
                  EntryOf(tab, regions_total, snap.ret).size = snap.n


\* ------------------------------------------------------------------------
\* One thread filling the region table until regions_insert has to grow it,
\* and h_realloc calls that fail
\* ------------------------------------------------------------------------
MaxLiveFull == 7
FullReallocSizes == {30000, 60000}

\* the kernel places every new mapping at the lowest of these that is free
FullBases == { (8192 + 32 * k) * PAGE_SIZE : k \in 0 .. MaxLiveFull }

LowestFit(t) ==
    LET fits == { b \in FullBases : pages_fit(vm, b, frame[t].size, frame[t].guard_size) }
    IN { b \in fits : \A x \in fits : b <= x }

LiveLarge == { p \in BagToSet(live) : ~in_slab_region(p) }
LiveSmall == { p \in BagToSet(live) : in_slab_region(p) }

ReallocFailNext ==
    \/ Cardinality(LiveLarge) < MaxLiveFull /\ h_malloc(1, 40000, FALSE)
    \/ LiveSmall = {} /\ h_malloc(1, 16, FALSE)
    \/ \E p \in BagToSet(live), n \in FullReallocSizes :
          /\ \A x \in LiveLarge : p <= x
          /\ p \in LiveLarge => Cardinality(LiveLarge) = MaxLiveFull
          /\ h_realloc(1, p, n, TRUE)
    \/ allocate_small_lock(1)
    \/ \E slab_fails \in BOOLEAN : allocate_small_slot(1, 0, 256 + 1, FALSE, slab_fails)
    \/ allocate_small_return(1)
    \/ deallocate_small_lock(1, "returns")
    \/ deallocate_small_unlock(1, FALSE)
    \/ regions_mutex_lock(1)
    \/ allocate_guard(1, 0)
    \/ \E usable \in LowestFit(1) \cup {NULL} : allocate_pages_call(1, usable)
    \/ \E protect_fails \in BOOLEAN : allocate_insert(1, protect_fails, FALSE)
    \/ deallocate_large_delete(1)
    \/ deallocate_large_pages(1)
    \/ realloc_find(1)
    \/ \E map_fixed_fails \in BOOLEAN : realloc_shrink_map(1, map_fixed_fails)
    \/ realloc_shrink_size(1)
    \/ realloc_copy(1)

SpecReallocFail == Init /\ [][ReallocFailNext]_vars

\* h_realloc of a live pointer has just returned NULL
ReallocFailed ==
    /\ snap.done /\ snap.op = "h_realloc" /\ snap.ret = NULL
    /\ snap.p # NULL /\ snap.was_live

\* C19: when h_realloc(old, n) has returned NULL for a live old, old is still
\* live; a large old still has the region-table entry the call found, same
\* size and guard size, its pages readable and writable between its two
\* guards; a small old still has its bit set in its slab's bitmap.
C19_FailedReallocLeavesOld ==
    ReallocFailed =>
        /\ IsLive(snap.p)
        /\ ~in_slab_region(snap.p) =>
              LET e == EntryOf(ActiveTable(RegionState), regions_total, snap.p)
                  was == EntryOf(snap.table, regions_total, snap.p)
                  end == e.p + PAGE_CEILING(e.size)
              IN /\ e.p = snap.p
                 /\ e = was
                 /\ vm_range_is(vm, e.p - e.guard_size, e.p, "none")
                 /\ vm_range_is(vm, e.p, end, "rw")
                 /\ vm_range_is(vm, end, end + e.guard_size, "none")
        /\ in_slab_region(snap.p) =>
              LET class == slab_size_class(snap.p)
                  c == size_class_metadata[class]
                  metadata == get_metadata(c, class, class_slab_size(class), snap.p)
                  slab == get_slab(class, class_slab_size(class), metadata)
              IN get_slot(c.slab_info[metadata].bitmap,
                          (snap.p - slab) \div class_object_size(class))

\* h_realloc of a large block has returned NULL with the table so full that
\* regions_insert had to grow it
C19_FailedWithTableFull ==
    /\ ReallocFailed
    /\ ~in_slab_region(snap.p)
    /\ regions_needs_grow(regions_free, regions_total)


\* ------------------------------------------------------------------------
\* Threads making their first calls, and fork()
\* ------------------------------------------------------------------------
MaxLiveFork == 2
ForkSizes == {16376, 40000}

\* the process as the loader starts it: nothing initialised, no handlers
Boot ==
    /\ size_class_metadata = [class \in AllClasses |-> ZeroClass]
    /\ class_lock = [class \in AllClasses |-> NoThread]
    /\ ro_regions = << ZeroBuffer, ZeroBuffer >>
    /\ regions = NULL
    /\ regions_total = initial_region_table_size
    /\ regions_free = initial_region_table_size
    /\ regions_lock = NoThread
    /\ vm = {}
    /\ mem_body = {}
    /\ mem_tail = << >>
    /\ pc = [t \in Threads |-> "idle"]
    /\ frame = [t \in Threads |-> NoFrame]
    /\ aborted = ""
    /\ live = EmptyBag
    /\ snap = NoSnap
    /\ q = NoQuery
    /\ deletes = 0
    /\ ro = ZeroRo
    /\ init_lock = NoThread
    /\ init_runs = 0
    /\ atfork_registered = FALSE
    /\ child = NoChild
    /\ dirtied = {}

ForkNext ==
    \/ \E t \in Threads :
          \/ \E n \in ForkSizes :
                /\ BagCardinality(live) + Cardinality(InFlight) < MaxLiveFork
                /\ h_malloc(t, n, FALSE)
          \/ \E p \in Freeable : h_free(t, p, FALSE)
          \/ fork(t)
          \/ init_slow_path_lock(t)
          \/ \E error \in {"", "failed to allocate slab region"} : init_slow_path(t, error)
          \/ \E fails \in BOOLEAN : init_class(t, fails)
          \/ init_publish(t)
          \/ \E fails \in BOOLEAN : init_protect(t, fails)
          \/ \E fails \in BOOLEAN : init_atfork(t, fails)
          \/ full_lock(t)
          \/ fork_copy(t)
          \/ full_unlock(t)
          \/ allocate_small_lock(t)
          \/ \E draw \in SlotDraws(t) : allocate_small_slot(t, draw, 256 + 1, FALSE, FALSE)
          \/ allocate_small_return(t)
          \/ deallocate_small_lock(t, "returns")
          \/ deallocate_small_unlock(t, FALSE)
          \/ regions_mutex_lock(t)
          \/ allocate_guard(t, 0)
          \/ \E usable \in LargeBases : allocate_pages_call(t, usable)
          \/ allocate_insert(t, FALSE, FALSE)
          \/ deallocate_large_delete(t)
          \/ deallocate_large_pages(t)
    \/ post_fork_child
    \/ \E n \in ForkSizes : child_h_malloc(n)

SpecFork == Boot /\ [][ForkNext]_vars


\* where a thread is inside init_slow_path
InitLocations ==
    {"init_slow_path_lock", "init_slow_path", "init_class", "init_publish", "init_protect",
     "init_atfork"}
\* where a thread is inside fork(): the prepare handler, the copy, the parent handler
ForkLocations == {"full_lock", "fork_copy", "full_unlock"}

\* every field init_slow_path stores has been stored: the slab region is
\* reserved from its first page to its last, the table has its buffers, and
\* every class has its committed slab_info entries
FieldsInitialised ==
    /\ ro.slab_region_start = slab_region_start
    /\ ro.slab_region_end = slab_region_end
    /\ ro.regions = << TRUE, TRUE >>
    /\ regions # NULL
    /\ \E s \in vm : s.lo = slab_region_start
    /\ \E s \in vm : s.hi = slab_region_end
    /\ \A class \in AllClasses :
          LET c == size_class_metadata[class]
          IN /\ c.metadata_allocated >= MetadataInit
             /\ DOMAIN c.slab_info = 0 .. (c.metadata_allocated - 1)

\* C15: the body of init_slow_path runs at most once however the threads'
\* first calls interleave, and has run once is_init() is true; whenever
\* is_init() is true the slab region, the region table and every class are
\* fully set up; and no thread is inside allocate or deallocate before that.
C15_InitOnceBeforeUse ==
    /\ init_runs <= 1
    /\ ro.initialized => (init_runs = 1 /\ FieldsInitialised)
    /\ \A t \in Threads :
          pc[t] \notin ({"idle"} \cup InitLocations \cup ForkLocations) => ro.initialized

\* a thread that waited for init_slow_path's lock holds it and finds
\* is_init() true, while the thread that ran the body has not yet returned
C15_SecondThreadFindsInit ==
    \E t \in Threads, u \in Threads :
        /\ pc[t] = "init_slow_path"
        /\ ro.initialized
        /\ pc[u] = "init_atfork"

\* the allocator locks a thread holds: regions_lock as -1, class locks by class
LocksHeld(t) ==
    { class \in AllClasses : class_lock[class] = t }
    \cup (IF regions_lock = t THEN {-1} ELSE {})

\* the thread holding the lock a thread is waiting for, NoThread if it waits
\* for none or the lock is free
WaitsFor(t) ==
    LET f == frame[t]
    IN IF aborted # "" THEN NoThread
       ELSE IF pc[t] = "allocate_small_lock" THEN class_lock[get_size_info(f.size).class]
       ELSE IF pc[t] = "deallocate_small_lock" /\ in_slab_region(f.p)
       THEN class_lock[slab_size_class(f.p)]
       ELSE IF pc[t] \in DOMAIN AfterRegionsLock THEN regions_lock
       ELSE IF pc[t] = "init_slow_path_lock" THEN init_lock
       ELSE IF pc[t] = "full_lock"
       THEN (IF f.class = -1 THEN regions_lock ELSE class_lock[f.class])
       ELSE NoThread

RECURSIVE WaitChain(_, _)
\* the thread reached from t by following WaitsFor k times
WaitChain(t, k) ==
    IF k = 0 \/ t = NoThread THEN t ELSE WaitChain(WaitsFor(t), k - 1)

\* C16: a thread outside full_lock / full_unlock holds at most one allocator
\* lock, and none while it holds init_slow_path's lock; a thread in round k of
\* full_lock holds regions_lock and the class locks below k and no other; a
\* thread that has returned holds no lock; and no set of threads waits for
\* locks held by each other.
C16_OneLockExceptInFork ==
    \A t \in Threads :
        /\ pc[t] \notin ForkLocations => Cardinality(LocksHeld(t)) <= 1
        /\ init_lock = t => LocksHeld(t) = {}
        /\ pc[t] = "full_lock" => LocksHeld(t) = -1 .. (frame[t].class - 1)
        /\ pc[t] \in {"fork_copy", "full_unlock"} => LocksHeld(t) = -1 .. (N_SIZE_CLASSES - 1)
        /\ pc[t] = "idle" => (LocksHeld(t) = {} /\ init_lock # t)
        /\ WaitChain(t, NumThreads) = NoThread

\* a thread in full_lock waits for a class lock that another thread holds
\* inside allocate_small
C16_ForkWaitsForAllocation ==
    \E t \in Threads, u \in Threads :
        /\ pc[t] = "full_lock"
        /\ frame[t].class >= 0
        /\ WaitsFor(t) = u
        /\ pc[u] \in {"allocate_small_slot", "allocate_small_return"}

\* C17: for every fork() made while is_init() was true, full_lock had taken
\* regions_lock and every class lock when the address space was copied, so
\* the child's copy of each lock was held by the forking thread alone, and
\* once the child runs, each of its mutexes is unlocked and its random state
\* seeded again.
C17_ForkCopiesQuiescentLocks ==
    (child.state # "none" /\ child.is_init) =>
        /\ child.handlers
        /\ child.state \in {"running", "done"} =>
              /\ child.reseeded
              /\ child.regions_lock = NoThread
              /\ \A class \in AllClasses : child.class_lock[class] = NoThread


\* ------------------------------------------------------------------------
\* The order in which allocate_small takes slabs from a class's lists
\* ------------------------------------------------------------------------
\* a sequence without its first k elements, and its first k elements
DropFirst(s, k) == SubSeq(s, k + 1, Len(s))
TakeFirst(s, k) == SubSeq(s, 1, k)

\* every slab the class has handed out has all its slots allocated
AllSlabsFull(class, c) ==
    \A i \in HandedOut(c) : c.slab_info[i].bitmap = 0 .. (Min(class_slots(class), 64) - 1)

\* C21: allocate_small serves a request from the head of the partial list if
\* that list is not empty, otherwise from the head of the empty list (the
\* slab emptied last), otherwise from the head of the free list (slabs leave
\* it in the order they entered it), and makes a new metadata entry only
\* when the three lists are empty; so metadata_count of a class grows only
\* in a step that finds no slab of the class with a free slot.
C21_ListsServedInOrder ==
    [][\A class \in AllClasses :
         LET c == size_class_metadata[class]
             d == size_class_metadata'[class]
             partial == partial_list(c)
             empty == empty_slabs_list(c)
             free == free_list(c)
         IN /\ \A t \in Threads :
                  (/\ pc[t] = "allocate_small_slot"
                   /\ pc'[t] = "allocate_small_return"
                   /\ frame[t].class = class)
                  => LET served == frame'[t].metadata
                     IN IF partial # << >>
                        THEN /\ served = Head(partial)
                             /\ empty_slabs_list(d) = empty
                             /\ free_list(d) = free
                        ELSE IF empty # << >>
                        THEN /\ served = Head(empty)
                             /\ empty_slabs_list(d) = Tail(empty)
                             /\ free_list(d) = free
                        ELSE IF free # << >>
                        THEN /\ served = Head(free)
                             /\ free_list(d) = Tail(free)
                        ELSE /\ served = c.metadata_count
                             /\ d.metadata_count > c.metadata_count
            \* metadata_count moves only upwards, and only past full slabs
            /\ d.metadata_count # c.metadata_count
                  => /\ d.metadata_count > c.metadata_count
                     /\ partial = << >> /\ empty = << >> /\ free = << >>
                     /\ AllSlabsFull(class, c)
            \* the empty list is a stack, the free list a queue
            /\ \/ empty_slabs_list(d) = empty /\ free_list(d) = free
               \/ empty # << >> /\ empty_slabs_list(d) = Tail(empty) /\ free_list(d) = free
               \/ \E i \in HandedOut(c) :
                     empty_slabs_list(d) = << i >> \o empty /\ free_list(d) = free
               \/ \E i \in HandedOut(c) :
                     empty_slabs_list(d) = empty /\ free_list(d) = Append(free, i)
               \/ free # << >> /\ empty_slabs_list(d) = empty /\ free_list(d) = Tail(free)
               \/ \E k \in 1 .. Len(empty) :
                     /\ empty_slabs_list(d) = DropFirst(empty, k)
                     /\ free_list(d) = free \o TakeFirst(empty, k)
      ]_vars

\* a request is being served from the head of the free list while another
\* slab waits behind it
C21_ServedFromFreeListHead ==
    \E t \in Threads :
        /\ pc[t] = "allocate_small_return"
        /\ frame[t].path = "free"
        /\ size_class_metadata[frame[t].class].free_slabs_head # NIL


\* ------------------------------------------------------------------------
\* The cache of empty slabs and its budget
\* ------------------------------------------------------------------------
\* empty_slabs_total counts the empty list's slabs
EmptyTotalCountsList ==
    \A class \in AllClasses :
        LET c == size_class_metadata[class]
        IN c.empty_slabs_total = Len(empty_slabs_list(c)) * class_slab_size(class)

\* C22 as claimed: for every class empty_slabs_total is the number of slabs
\* in the empty list times the slab size and never exceeds
\* max_empty_slabs_total, whatever the page provider returns.
C22_EmptyTotalWithinBudget ==
    /\ EmptyTotalCountsList
    /\ \A class \in AllClasses :
          size_class_metadata[class].empty_slabs_total <= max_empty_slabs_total

\* C22 as amended: empty_slabs_total is the number of slabs in the empty
\* list times the slab size; a slab that becomes empty when
\* empty_slabs_total + slab_size exceeds max_empty_slabs_total goes to the
\* tail of the free list with its pages dropped if memory_map_fixed
\* succeeds and to the head of the empty list with its pages kept if it
\* fails; below the budget it goes to the head of the empty list; and
\* empty_slabs_total passes the budget in no other way.
C22_OverBudgetPurgedUnlessMapFails ==
    /\ []EmptyTotalCountsList
    /\ [][\A class \in AllClasses :
            LET c == size_class_metadata[class]
                d == size_class_metadata'[class]
                slab_size == class_slab_size(class)
                over == c.empty_slabs_total + slab_size > max_empty_slabs_total
                Cached(i) == /\ empty_slabs_list(d) = << i >> \o empty_slabs_list(c)
                             /\ free_list(d) = free_list(c)
                             /\ d.empty_slabs_total = c.empty_slabs_total + slab_size
                             /\ vm' = vm
                Purged(i) == /\ free_list(d) = Append(free_list(c), i)
                             /\ empty_slabs_list(d) = empty_slabs_list(c)
                             /\ d.empty_slabs_total = c.empty_slabs_total
                             /\ vm_range_is(vm', get_slab(class, slab_size, i),
                                            get_slab(class, slab_size, i + 1), "none")
            IN /\ \A i \in HandedOut(c) :
                     (c.slab_info[i].bitmap # {} /\ d.slab_info[i].bitmap = {})
                     => IF over THEN Purged(i) \/ Cached(i) ELSE Cached(i)
               /\ (d.empty_slabs_total > c.empty_slabs_total
                      /\ d.empty_slabs_total > max_empty_slabs_total)
                  => over /\ vm' = vm
         ]_vars

\* memory_map_fixed has failed on a slab that became empty over budget: the
\* empty list holds more than the budget
C22_CachedPastBudget ==
    \E class \in AllClasses :
        LET c == size_class_metadata[class]
        IN /\ c.empty_slabs_total > max_empty_slabs_total
           /\ Len(empty_slabs_list(c)) >= 2


\* ------------------------------------------------------------------------
\* One thread from the loader's state on: h_malloc_trim before and after
\* init_slow_path, between allocations and frees that fill one class to
\* its last slab, every call of the page provider failing or not
\* ------------------------------------------------------------------------
MaxLiveTrim == 9

TrimNext ==
    \/ \E n \in SlabSizes : BagCardinality(live) < MaxLiveTrim /\ h_malloc(1, n, TRUE)
    \/ \E p \in BagToSet(live) : h_free(1, p, FALSE)
    \/ h_malloc_trim(1, TRUE)
    \/ init_slow_path_lock(1)
    \/ init_slow_path(1, "")
    \/ init_class(1, FALSE)
    \/ init_publish(1)
    \/ init_protect(1, FALSE)
    \/ init_atfork(1, FALSE)
    \/ allocate_small_lock(1)
    \/ \E draw \in SlotDraws(1), info_fails \in BOOLEAN, slab_fails \in BOOLEAN :
          allocate_small_slot(1, draw, 256 + 1, info_fails, slab_fails)
    \/ allocate_small_return(1)
    \/ deallocate_small_lock(1, "returns")
    \/ \E map_fixed_fails \in BOOLEAN : deallocate_small_unlock(1, map_fixed_fails)
    \/ \E moves \in 0 .. 2 : malloc_trim_class(1, moves)

SpecTrim == Boot /\ [][TrimNext]_vars

\* h_malloc_trim has returned and no other call has been made since
TrimDone == Quiescent /\ snap.taken /\ snap.done /\ snap.op = "h_malloc_trim"

\* how many slabs the call took off the class's empty list
Trimmed(class) ==
    Len(empty_slabs_list(snap.size_class_metadata[class]))
        - Len(empty_slabs_list(size_class_metadata[class]))

\* C23: h_malloc_trim moves, for each class 1..36, slabs from the head of
\* the empty list to the tail of the free list in list order, their pages
\* dropped, and leaves the slab whose map_fixed fails and all later ones in
\* the empty list in their order; empty_slabs_total decreases by slab_size
\* per moved slab; bitmaps, the partial list, metadata_count and the region
\* table are unchanged; it returns nonzero iff a slab was moved, and 0
\* without touching anything when the allocator is not initialised.
C23_TrimMovesEmptyPrefix ==
    TrimDone =>
        IF ~ro.initialized
        THEN /\ snap.ret = 0
             /\ size_class_metadata = snap.size_class_metadata
             /\ vm = snap.vm
             /\ mem_body = snap.mem_body /\ mem_tail = snap.mem_tail
        ELSE /\ size_class_metadata[0] = snap.size_class_metadata[0]
             /\ \A class \in 1 .. (N_SIZE_CLASSES - 1) :
                   LET c == snap.size_class_metadata[class]
                       d == size_class_metadata[class]
                       slab_size == class_slab_size(class)
                       k == Trimmed(class)
                       moved == TakeFirst(empty_slabs_list(c), k)
                   IN /\ k \in 0 .. Len(empty_slabs_list(c))
                      /\ empty_slabs_list(d) = DropFirst(empty_slabs_list(c), k)
                      /\ free_list(d) = free_list(c) \o moved
                      /\ d.empty_slabs_total = c.empty_slabs_total - k * slab_size
                      /\ \A i \in Range(moved) :
                            vm_range_is(vm, get_slab(class, slab_size, i),
                                        get_slab(class, slab_size, i + 1), "none")
                      /\ partial_list(d) = partial_list(c)
                      /\ d.metadata_count = c.metadata_count
                      /\ d.metadata_allocated = c.metadata_allocated
                      /\ \A i \in DOMAIN c.slab_info :
                            d.slab_info[i].bitmap = c.slab_info[i].bitmap
             /\ ActiveTable(RegionState) = snap.table
             /\ regions_free = snap.regions_free
             /\ snap.ret # 0 <=> \E class \in 1 .. (N_SIZE_CLASSES - 1) : Trimmed(class) > 0

\* the walk moved one slab and stopped at the next, whose map_fixed failed
C23_TrimStoppedAtFailure ==
    /\ TrimDone
    /\ \E class \in 1 .. (N_SIZE_CLASSES - 1) :
          /\ Trimmed(class) = 1
          /\ size_class_metadata[class].empty_slabs # NIL


\* ------------------------------------------------------------------------
\* One thread fills one class, any of the 37, past its first slab
\* ------------------------------------------------------------------------
MaxLiveFill == 66

\* one request size for each class
FillSizes == {0} \cup { class_size(class) - canary_size : class \in 1 .. (N_SIZE_CLASSES - 1) }

\* the program stays with the class of its first allocation
SameClassAsLive(n) ==
    \A p \in BagToSet(live) :
        slab_size_class(p) = get_size_info(adjust_size_for_canaries(n)).class

\* the first and the last draw get_random_u16_uniform can make
EndDraws(t) == { d \in SlotDraws(t) : d = 0 \/ d + 1 \notin SlotDraws(t) }

FillNext ==
    \/ \E n \in FillSizes :
          /\ BagCardinality(live) < MaxLiveFill
          /\ SameClassAsLive(n)
          /\ h_malloc(1, n, FALSE)
    \/ allocate_small_lock(1)
    \/ \E draw \in EndDraws(1) : allocate_small_slot(1, draw, 256 + 1, FALSE, FALSE)
    \/ allocate_small_return(1)

SpecFill == Init /\ [][FillNext]_vars

\* the slab of a class a pointer lies in, and its offset in that slab
SlabIndexOf(class, p) == (p - class_region_start(class)) \div class_slab_size(class)
OffsetInSlab(class, p) == (p - class_region_start(class)) % class_slab_size(class)

\* C24 as claimed: for every class c and every pointer p returned from c,
\* (p - class_region_start(c)) mod object_size(c) = 0 and
\* (p - class_region_start(c)) / slab_size(c) < metadata_count(c), for all
\* 37 classes.
C24_OffsetInClassMultipleOfSize ==
    \A p \in BagToSet(live) :
        LET class == slab_size_class(p)
        IN /\ (p - class_region_start(class)) % class_object_size(class) = 0
           /\ SlabIndexOf(class, p) < size_class_metadata[class].metadata_count

\* C24 as amended: for every class c and every pointer p returned from c,
\* with index = (p - class_region_start(c)) / slab_size(c), index is below
\* metadata_count(c) and the offset of p in its slab, p -
\* (class_region_start(c) + index * slab_size(c)), is slot * object_size(c)
\* for a slot below slots(c); p - class_region_start(c) is a multiple of
\* object_size(c) in the classes whose slab size is one.
C24_OffsetInSlabMultipleOfSize ==
    \A p \in BagToSet(live) :
        LET class == slab_size_class(p)
            size == class_object_size(class)
        IN /\ SlabIndexOf(class, p) < size_class_metadata[class].metadata_count
           /\ OffsetInSlab(class, p) % size = 0
           /\ OffsetInSlab(class, p) \div size < class_slots(class)
           /\ class_slab_size(class) % size = 0
                 => (p - class_region_start(class)) % size = 0

\* a pointer is live in the second slab of a class whose slab size is not a
\* multiple of its object size
C24_SecondSlabOfOddClass ==
    \E p \in BagToSet(live) :
        LET class == slab_size_class(p)
        IN /\ class_slab_size(class) % class_object_size(class) # 0
           /\ SlabIndexOf(class, p) > 0


\* ------------------------------------------------------------------------
\* allocate_small returning NULL
\* ------------------------------------------------------------------------
\* h_malloc has returned NULL and no other call has been made since
AllocFailed ==
    /\ snap.taken /\ snap.done
    /\ snap.op = "h_malloc" /\ snap.ret = NULL

\* C25: when allocate_small returns NULL (metadata cap reached, protect_rw
\* failing on the metadata array, on a new slab or on the head slab of the
\* free list) the class lock is released and the class's partial, empty and
\* free lists with free_slabs_head and free_slabs_tail, every bitmap,
\* empty_slabs_total and metadata_count are as before the call.
C25_FailedAllocationLeavesClass ==
    AllocFailed =>
        LET class == get_size_info(adjust_size_for_canaries(snap.n)).class
            c == snap.size_class_metadata[class]
            d == size_class_metadata[class]
        IN /\ class_lock[class] = NoThread
           /\ d.partial_slabs = c.partial_slabs /\ partial_list(d) = partial_list(c)
           /\ d.empty_slabs = c.empty_slabs /\ empty_slabs_list(d) = empty_slabs_list(c)
           /\ d.free_slabs_head = c.free_slabs_head /\ free_list(d) = free_list(c)
           /\ d.free_slabs_tail = c.free_slabs_tail
           /\ \A i \in DOMAIN c.slab_info : d.slab_info[i].bitmap = c.slab_info[i].bitmap
           /\ \A i \in DOMAIN d.slab_info \ DOMAIN c.slab_info : d.slab_info[i].bitmap = {}
           /\ d.empty_slabs_total = c.empty_slabs_total
           /\ d.metadata_count = c.metadata_count

\* the call found only the free list filled and could not commit its head
\* slab, which is still the head
C25_FreeListHeadNotCommitted ==
    /\ AllocFailed
    /\ LET c == size_class_metadata[get_size_info(adjust_size_for_canaries(snap.n)).class]
       IN /\ c.partial_slabs = NIL /\ c.empty_slabs = NIL
          /\ c.free_slabs_head # NIL


\* ------------------------------------------------------------------------
\* regions_grow: what the table it switches to holds
\* ------------------------------------------------------------------------
\* the slots of a table that hold an entry, and the entries
Occupied(tab, total) == { i \in 0 .. (total - 1) : tab[i].p # NULL }
Entries(tab, total) == { tab[i] : i \in Occupied(tab, total) }

\* C26: each successful regions_grow leaves the new table holding exactly
\* the entries of the old table (here with the entry of the regions_insert
\* that grew it) and nothing else, regions_total doubled and regions_free
\* increased by the old regions_total; the buffer a grow rehashes into holds
\* no entries left over from its earlier use, also when memory_map_fixed on
\* the old buffer failed; a failing regions_insert changes nothing.
C26_GrowCarriesEntriesOnly ==
    [][/\ regions_total' # regions_total =>
             LET old == ActiveTable(RegionState)
                 new == ro_regions'[regions']
                 target == ro_regions[regions']
             IN /\ regions' # regions
                /\ regions_total' = 2 * regions_total
                /\ regions_free' = regions_free + regions_total - 1
                /\ Occupied(target, regions_total') = {}
                /\ Cardinality(Occupied(new, regions_total'))
                      = Cardinality(Occupied(old, regions_total)) + 1
                /\ \E e \in Entries(new, regions_total') :
                      /\ e \notin Entries(old, regions_total)
                      /\ Entries(new, regions_total') = Entries(old, regions_total) \cup {e}
       /\ live' = live =>
             /\ ro_regions' = ro_regions /\ regions' = regions
             /\ regions_total' = regions_total /\ regions_free' = regions_free
      ]_vars


SizeQueryPointers ==
    {NULL, class_region_start(1)} \cup BagToSet(live) \cup LargeBases

SizeQueryNext ==
    \/ BagCardinality(live) < MaxLiveLarge /\ h_malloc(1, 40000, FALSE)
    \/ \E p \in BagToSet(live) : h_free(1, p, FALSE)
    \/ \E p \in SizeQueryPointers, outcome \in NullReadOutcomes, value \in NullReadValues :
          h_malloc_usable_size(1, p, outcome, value, TRUE)
    \/ \E p \in SizeQueryPointers, outcome \in NullReadOutcomes, value \in NullReadValues :
          h_malloc_object_size(1, p, outcome, value, TRUE)
    \/ regions_mutex_lock(1)
    \/ \E draw \in GuardDraws(1) : allocate_guard(1, draw)
    \/ \E usable \in LargeBases \cup {NULL} : allocate_pages_call(1, usable)
    \/ allocate_insert(1, FALSE, FALSE)
    \/ deallocate_large_delete(1)
    \/ deallocate_large_pages(1)

SpecSizeQuery == Init /\ [][SizeQueryNext]_vars

\* h_malloc_usable_size or h_malloc_object_size was called, after
\* initialisation, with a non-null pointer outside the slab region that is
\* no key of the region table
SizeQueryMissed ==
    /\ snap.taken
    /\ snap.op \in {"h_malloc_usable_size", "h_malloc_object_size"}
    /\ ro.initialized
    /\ snap.p # NULL
    /\ ~in_slab_region(snap.p)
    /\ regions_find(snap.table, regions_total, snap.p) = NOT_FOUND

\* C28: h_malloc_usable_size(p) and h_malloc_object_size(p), called after
\* initialisation with a non-null p that is neither inside the slab region
\* nor a key of the region table, end in fatal_error as h_free does and
\* never read a field through the NULL result of regions_find.
C28_RegistryMissIsFatal ==
    SizeQueryMissed =>
        /\ ~snap.done
        /\ aborted \in {"invalid malloc_usable_size", "invalid malloc_object_size"}


\* ------------------------------------------------------------------------
\* The whole program: every workload's steps
\* ------------------------------------------------------------------------
Next ==
    \/ DispatcherNext \/ RegionsNext \/ SlabNext \/ FreeNext \/ LargeNext
    \/ BytesNext \/ ReallocFailNext \/ ForkNext \/ TrimNext
    \/ FillNext \/ SizeQueryNext

Spec == Init /\ [][Next]_vars

====
